---- MODULE Spec2Model ----
(***************************************************************************)
(* State-machine model of the shopping-cart REST API: the category,        *)
(* product and admin controllers, the Sequelize models' setters, hooks and  *)
(* validators they run through, the express-validator chains mounted on     *)
(* the routes, and the error handler.                                       *)
(*                                                                         *)
(* Representation.  Strings that the code inspects character by character   *)
(* (names, slugs) are tuples of one-character strings.  A JavaScript        *)
(* `undefined` / `null` is one marker per type, so that every comparison    *)
(* is between values of one kind.  Rows are never removed from a table      *)
(* (all models are paranoid), so a table is a sequence indexed by id.       *)
(* Attributes that no modelled branch reads (description, price, address,   *)
(* createdAt/updatedAt, ...) are left out of the rows.                      *)
(***************************************************************************)
EXTENDS Integers, Sequences, FiniteSets, TLC

VARIABLES
  categories,   \* table `categories`: sequence of rows, id = index
  products,     \* table `products`
  users,        \* table `users`
  profiles,     \* table `admin_profiles`
  now,          \* the clock read by `new Date()`: advances with every soft delete
  focus,        \* the router that receives the traffic of this behaviour
  last,         \* the last request answered: operation, id, status, rows,
                \* message and the passwords its body carries
  snap,         \* history: each row as it was when last soft-deleted
  pg,           \* input and output of the list envelope and order clause
  flight,       \* the deleteAdmin / restoreAdmin requests between their awaits
  log           \* the passwords readable in the records written to the log

vars == <<categories, products, users, profiles, now, focus, last, snap, pg,
          flight, log>>

(***************************************************************************)
(* Bounds of the model                                                     *)
(***************************************************************************)
MaxCategories == 2
MaxProducts == 1
MaxUsers == 2
MaxTime == 2
MaxCount == 4

(***************************************************************************)
(* JavaScript values                                                       *)
(***************************************************************************)
UndefinedStr == <<"undefined">>   \* an absent string-valued key
NullStr == <<"null">>
UndefinedQ == "undefined"         \* an absent query-string parameter
NullTime == -1                    \* deletedAt IS NULL
UndefinedTime == -2               \* attribute not selected into the instance

Falsy(s) == s \in {UndefinedStr, NullStr, <<>>}
Truthy(s) == ~Falsy(s)

(***************************************************************************)
(* slugify(value, {lower: true, strict: true, remove: /[*+~.()'"!:@]/g})   *)
(***************************************************************************)
LowerChars == {"a", "b", "x"}
UpperChars == {"A", "B"}
RemoveChars == {"!"}
AlphaNum == LowerChars \cup UpperChars

ToLowerChar(c) == IF c = "A" THEN "a" ELSE IF c = "B" THEN "b" ELSE c

RECURSIVE ReplaceAndStrip(_)
ReplaceAndStrip(s) ==
  IF s = <<>> THEN <<>>
  ELSE LET c == Head(s)
           r == ReplaceAndStrip(Tail(s))
       IN  IF c = "-" THEN <<" ">> \o r          \* replacement char -> ' '
           ELSE IF c \in RemoveChars THEN r      \* options.remove
           ELSE IF c \in AlphaNum \cup {" "} THEN <<c>> \o r
           ELSE r                                \* strict

RECURSIVE TrimLeft(_)
TrimLeft(s) == IF s # <<>> /\ Head(s) = " " THEN TrimLeft(Tail(s)) ELSE s

RECURSIVE TrimRight(_)
TrimRight(s) ==
  IF s # <<>> /\ s[Len(s)] = " " THEN TrimRight(SubSeq(s, 1, Len(s) - 1)) ELSE s

Trim(s) == TrimRight(TrimLeft(s))

RECURSIVE HyphenateSpaces(_)
HyphenateSpaces(s) ==
  IF s = <<>> THEN <<>>
  ELSE IF Head(s) = " "
       THEN <<"-">> \o HyphenateSpaces(TrimLeft(s))   \* /\s+/g -> '-'
       ELSE <<Head(s)>> \o HyphenateSpaces(Tail(s))

ToLowerCase(s) == [i \in 1..Len(s) |-> ToLowerChar(s[i])]

Slugify(s) == ToLowerCase(HyphenateSpaces(Trim(ReplaceAndStrip(s))))

\* /^[a-z0-9-]+$/
MatchesSlugPattern(s) ==
  /\ s # <<>>
  /\ \A i \in 1..Len(s) : s[i] \in LowerChars \cup {"-"}

(***************************************************************************)
(* Error handler: the status each kind of error is answered with           *)
(***************************************************************************)
ErrorStatus(kind) ==
  CASE kind = "SequelizeValidationError" -> 400
    [] kind = "SequelizeUniqueConstraintError" -> 400
    [] kind = "SequelizeForeignKeyConstraintError" -> 400
    [] OTHER -> 500

\* The message of the body.  "err.errors[].message" stands for the
\* validators' messages and "err.message" for the text of the error that
\* was thrown; the errors thrown by the hooks and by the query builder
\* carry a text, so `|| "Server Error"` does not apply to them.
ErrorMessage(kind) ==
  CASE kind = "SequelizeValidationError" -> "err.errors[].message"
    [] kind = "SequelizeUniqueConstraintError" -> "err.errors[].message"
    [] kind = "SequelizeForeignKeyConstraintError" ->
         "Reference error: Invalid foreign key"
    [] kind = "SequelizeConnectionError" -> "Database connection error"
    [] OTHER -> "err.message"

(***************************************************************************)
(* Validation middleware.  Every router mounts handleValidationErrors with *)
(* router.use() ahead of its routes, and each route lists its validation   *)
(* chain after it: when the handler looks at the request, no chain has     *)
(* run, so it sees no failure whatever the chain records afterwards.       *)
(***************************************************************************)
ErrorsAtHandler(chainFailed) == FALSE

HandleValidationErrors(failed) == IF failed THEN 400 ELSE 0

\* 0: the request reaches the controller; otherwise the status answered
Gate(chainFailed) == HandleValidationErrors(ErrorsAtHandler(chainFailed))

(***************************************************************************)
(* Request inputs                                                          *)
(***************************************************************************)
CategoryNames == {<<"A", " ", "b">>, <<"!">>}
ExplicitSlugs == {<<"a", "-", "b">>, <<"x">>}
BodyBools == {"undefined", "true", "false"}
QueryBools == {UndefinedQ, "true", "false"}

(***************************************************************************)
(* Validation chain objects.  A chain is an object; `.optional()` sets a   *)
(* flag on the object it is called on and returns that same object.        *)
(***************************************************************************)
ChainNames ==
  {"category.name", "category.slug",
   "product.categoryId", "product.name", "product.slug",
   "product.description", "product.price", "product.unitType",
   "product.minQuantity", "product.maxQuantity",
   "validateEmail", "validatePassword", "base.password",
   "firstName", "lastName"}

\* the chains whose declaration calls .optional()
DeclaredOptional ==
  [c \in ChainNames |->
     c \in {"category.slug", "product.slug", "product.minQuantity",
            "product.maxQuantity", "base.password"}]

CategoryValidations == <<"category.name", "category.slug">>

ProductValidations ==
  <<"product.categoryId", "product.name", "product.slug",
    "product.description", "product.price", "product.unitType",
    "product.minQuantity", "product.maxQuantity">>

BaseUserValidations == <<"validateEmail", "base.password">>

AdminProfileValidations == <<"firstName", "lastName">>

\* v.optional()
Optional(heap, c) == [heap EXCEPT ![c] = TRUE]

\* list.map((v) => v.optional()): the objects of the list, each after the call
RECURSIVE MapOptional(_, _)
MapOptional(heap, list) ==
  IF list = <<>> THEN heap
  ELSE MapOptional(Optional(heap, Head(list)), Tail(list))

\* the chain objects once the exports of the three validation modules have
\* been evaluated
LoadedOptional ==
  MapOptional(
    MapOptional(
      MapOptional(
        MapOptional(DeclaredOptional, CategoryValidations),
        ProductValidations),
      BaseUserValidations),
    AdminProfileValidations)

\* a chain run on a request without its field: skipped when the object is
\* optional, otherwise its validators run on undefined and fail
AbsentFails(c) == ~LoadedOptional[c]

CategoryBodies ==
  [name : CategoryNames \cup {UndefinedStr},
   slug : ExplicitSlugs \cup {UndefinedStr},
   isActive : BodyBools,
   id : {0}, deletedAt : {UndefinedTime}]

CategoryIds == 1..MaxCategories

ListQueries == [isActive : QueryBools, includeInactive : QueryBools,
                includeDeleted : QueryBools]

DetailQueries == [includeDeleted : QueryBools]

NoRows == {}

NoSecrets == {}

\* res.status(status).json({success, message, data}): the message is the
\* controller's literal unless the error handler wrote the response
Response(op, id, status, rows) ==
  [op |-> op, id |-> id, status |-> status, rows |-> rows,
   message |-> "controller", secrets |-> NoSecrets]

\* errorHandler: res.status(error.statusCode || 500).json({success: false,
\* message: error.message || "Server Error"})
ErrorResponse(op, id, kind) ==
  [Response(op, id, ErrorStatus(kind), NoRows) EXCEPT
     !.message = ErrorMessage(kind)]

(***************************************************************************)
(* Category model                                                          *)
(***************************************************************************)
\* Variant: a model without a where clause in its default scope.
CategoryDefaultScopeEmpty(row) == TRUE

\* defaultScope: {where: {isActive: true}}
CategoryDefaultScope(row) == row.isActive

\* defaultScope: where isActive = true, deletedAt not selected; paranoid
\* adds deletedAt IS NULL unless the caller passes paranoid: false
\* Variant: a lookup that drops paranoid: false and so never sees a
\* soft-deleted row.
CategoryInScopeAlwaysParanoid(id, paranoid) ==
  /\ id \in 1..Len(categories)
  /\ categories[id].isActive
  /\ categories[id].deletedAt = NullTime

CategoryInScope(id, paranoid) ==
  /\ id \in 1..Len(categories)
  /\ CategoryDefaultScope(categories[id])
  /\ (paranoid => categories[id].deletedAt = NullTime)

\* Variant: a set() that writes deletedAt on a stored record as well.
SetDeletedAtOnAnyRecord(inst, value, isNewRecord) ==
  IF value # UndefinedTime THEN [inst EXCEPT !.deletedAt = value] ELSE inst

\* Model.set(key, value) for the paranoid timestamp: written on a record
\* being built, skipped as a read-only attribute on a record read from the
\* store.  The primary key of a stored record is skipped the same way, so an
\* id key in an update payload has no effect.
SetDeletedAt(inst, value, isNewRecord) ==
  IF value # UndefinedTime /\ isNewRecord
  THEN [inst EXCEPT !.deletedAt = value]
  ELSE inst

CategoryInstance(id) == [categories[id] EXCEPT !.deletedAt = UndefinedTime]

\* name.set(value)
CategorySetName(inst, value) ==
  [inst EXCEPT !.name = Trim(value),
               !.slug = IF Falsy(inst.slug) THEN Slugify(value) ELSE inst.slug]

\* Model.set(values): every key the body carries, in the body's order
CategorySet(inst, body) ==
  LET a == IF body.name # UndefinedStr THEN CategorySetName(inst, body.name)
           ELSE inst
      b == IF body.slug # UndefinedStr THEN [a EXCEPT !.slug = body.slug] ELSE a
  IN  IF body.isActive # "undefined"
      THEN [b EXCEPT !.isActive = (body.isActive = "true")]
      ELSE b

\* Variant: a hook that derives the slug from the name without testing
\* whether a slug is already set.
CategoryBeforeValidateOverwrites(inst) ==
  LET a == IF Truthy(inst.name)
           THEN [inst EXCEPT !.slug = Slugify(inst.name)]
           ELSE inst
  IN  IF Truthy(a.slug) THEN [a EXCEPT !.slug = ToLowerCase(a.slug)] ELSE a

\* hooks.beforeValidate
CategoryBeforeValidate(inst) ==
  LET a == IF Truthy(inst.name) /\ Falsy(inst.slug)
           THEN [inst EXCEPT !.slug = Slugify(inst.name)]
           ELSE inst
  IN  IF Truthy(a.slug) THEN [a EXCEPT !.slug = ToLowerCase(a.slug)] ELSE a

\* attribute validators: allowNull, notEmpty, is
CategoryValid(inst) ==
  /\ inst.name \notin {UndefinedStr, NullStr}
  /\ inst.name # <<>>
  /\ inst.slug \notin {UndefinedStr, NullStr}
  /\ MatchesSlugPattern(inst.slug)

\* Variant: a uniqueness that looks at live rows only.
CategorySlugTakenAmongLive(slug, self) ==
  \E i \in 1..Len(categories) :
    i # self /\ categories[i].slug = slug /\ categories[i].deletedAt = NullTime

\* unique index on slug: every row counts, soft-deleted and inactive too
CategorySlugTaken(slug, self) ==
  \E i \in 1..Len(categories) : i # self /\ categories[i].slug = slug

\* The outcome of save(): "" when the row is written
CategorySaveError(inst, self) ==
  IF ~CategoryValid(inst) THEN "SequelizeValidationError"
  ELSE IF CategorySlugTaken(inst.slug, self) THEN "SequelizeUniqueConstraintError"
  ELSE ""

NewCategory ==
  [name |-> UndefinedStr, slug |-> UndefinedStr, isActive |-> TRUE,
   deletedAt |-> NullTime]

(***************************************************************************)
(* Category validation chains (sanitizers and checks)                      *)
(***************************************************************************)
\* body("name")...trim(), body("slug")...trim()
CategorySanitize(body) ==
  [body EXCEPT !.name = IF @ = UndefinedStr THEN @ ELSE Trim(@),
               !.slug = IF @ = UndefinedStr THEN @ ELSE Trim(@)]

\* idParam.custom: findOne({where: {id}, paranoid: includeDeleted !== "true"})
CategoryIdParamFails(id, includeDeleted) ==
  ~CategoryInScope(id, includeDeleted # "true")

\* name: notEmpty, custom uniqueness (default scope, own id excluded);
\* slug: pattern, custom uniqueness.  Every chain of the array was made
\* optional when the update list was derived from it.
\* Variant: a name lookup that also finds soft-deleted rows.
CategoryNameFailsCountingDeleted(body, self) ==
  IF body.name = UndefinedStr THEN AbsentFails("category.name")
  ELSE \/ Trim(body.name) = <<>>
       \/ \E i \in 1..Len(categories) :
            /\ i # self
            /\ CategoryInScope(i, FALSE)
            /\ categories[i].name = Trim(body.name)

\* body("name").notEmpty()...custom(name not taken)
CategoryNameFails(body, self) ==
  IF body.name = UndefinedStr THEN AbsentFails("category.name")
  ELSE \/ Trim(body.name) = <<>>
       \/ \E i \in 1..Len(categories) :
            /\ i # self
            /\ CategoryInScope(i, TRUE)
            /\ categories[i].name = Trim(body.name)

CategoryBodyFails(body, self) ==
  \/ CategoryNameFails(body, self)
  \/ /\ body.slug # UndefinedStr
     /\ \/ ~MatchesSlugPattern(body.slug)
        \/ \E i \in 1..Len(categories) :
             /\ i # self
             /\ CategoryInScope(i, TRUE)
             /\ categories[i].slug = body.slug

(***************************************************************************)
(* Category controller                                                     *)
(***************************************************************************)
\* the request from the handler on, given what its chains found when they
\* ran
CreateCategoryAfter(raw, chainFailed) ==
  /\ Len(categories) < MaxCategories
  /\ LET gate == Gate(chainFailed)
         body == CategorySanitize(raw)
         inst == CategoryBeforeValidate(
                   SetDeletedAt(CategorySet(NewCategory, body),
                                body.deletedAt, TRUE))
         err == CategorySaveError(inst, 0)
     IN  IF gate # 0
         THEN /\ last' = Response("createCategory", 0, gate, NoRows)
              /\ UNCHANGED <<categories, snap>>
         ELSE IF err # ""
         THEN /\ last' = ErrorResponse("createCategory", 0, err)
              /\ UNCHANGED <<categories, snap>>
         ELSE /\ categories' = Append(categories, inst)
              /\ snap' = [snap EXCEPT !.category = Append(@, NewCategory)]
              /\ last' = Response("createCategory", Len(categories) + 1, 201,
                                  NoRows)
  /\ UNCHANGED <<products, users, profiles, now, focus, log, pg>>

\* a request whose chains and handler run with no other request in between
CreateCategory(raw) ==
  /\ CreateCategoryAfter(raw, CategoryBodyFails(raw, 0))
  /\ UNCHANGED flight

\* if (updateData.name && !updateData.slug) updateData.slug = slugify(name)
CategoryUpdateData(body) ==
  IF Truthy(body.name) /\ Falsy(body.slug)
  THEN [body EXCEPT !.slug = Slugify(body.name)]
  ELSE body

UpdateCategory(id, raw) ==
  /\ LET gate == Gate(CategoryIdParamFails(id, UndefinedQ)
                      \/ CategoryBodyFails(raw, id))
         body == CategoryUpdateData(CategorySanitize(raw))
     IN  IF gate # 0
         THEN /\ last' = Response("updateCategory", id, gate, NoRows)
              /\ UNCHANGED <<categories, snap>>
         ELSE IF ~CategoryInScope(id, TRUE)
         THEN /\ last' = Response("updateCategory", id, 404, NoRows)
              /\ UNCHANGED <<categories, snap>>
         ELSE LET inst == CategoryBeforeValidate(
                            SetDeletedAt(CategorySet(categories[id], body),
                                         body.deletedAt, FALSE))
                  err == CategorySaveError(inst, id)
              IN  IF err # ""
                  THEN /\ last' = ErrorResponse("updateCategory", id, err)
                       /\ UNCHANGED <<categories, snap>>
                  ELSE /\ categories' = [categories EXCEPT ![id] = inst]
                       /\ snap' = [snap EXCEPT !.category[id] = NewCategory]
                       /\ last' = Response("updateCategory", id, 200, NoRows)
  /\ UNCHANGED <<products, users, profiles, now, focus, log, flight, pg>>

\* Variant: a destroy() that soft-deletes the products of the category too.
ProductsCascadeOnCategoryDestroy(id) ==
  [p \in 1..Len(products) |->
     IF products[p].categoryId = id /\ products[p].deletedAt = NullTime
     THEN [products[p] EXCEPT !.deletedAt = now]
     ELSE products[p]]

\* category.destroy() on a paranoid model is an UPDATE of categories.deletedAt:
\* the association declares no hooks and the foreign key's ON DELETE does not
\* fire, so the products table is not written
ProductsAfterCategoryDestroy(id) == products

DeleteCategory(id) ==
  /\ now < MaxTime
  /\ LET gate == Gate(CategoryIdParamFails(id, UndefinedQ))
     IN  IF gate # 0
         THEN /\ last' = Response("deleteCategory", id, gate, NoRows)
              /\ UNCHANGED <<categories, products, snap, now>>
         ELSE IF ~CategoryInScope(id, TRUE)
         THEN /\ last' = Response("deleteCategory", id, 404, NoRows)
              /\ UNCHANGED <<categories, products, snap, now>>
         ELSE /\ categories' = [categories EXCEPT ![id].deletedAt = now]
              /\ products' = ProductsAfterCategoryDestroy(id)
              /\ snap' = [snap EXCEPT !.category[id] = categories[id]]
              /\ last' = Response("deleteCategory", id, 200, NoRows)
              /\ now' = now + 1
  /\ UNCHANGED <<users, profiles, focus, log, flight, pg>>

RestoreCategory(id) ==
  /\ LET gate == Gate(CategoryIdParamFails(id, UndefinedQ))
     IN  IF gate # 0
         THEN /\ last' = Response("restoreCategory", id, gate, NoRows)
              /\ UNCHANGED categories
         ELSE IF ~CategoryInScope(id, FALSE)
         THEN /\ last' = Response("restoreCategory", id, 404, NoRows)
              /\ UNCHANGED categories
         ELSE IF CategoryInstance(id).deletedAt = NullTime
         THEN /\ last' = Response("restoreCategory", id, 400, NoRows)
              /\ UNCHANGED categories
         ELSE /\ categories' = [categories EXCEPT ![id].deletedAt = NullTime]
              /\ last' = Response("restoreCategory", id, 200, NoRows)
  /\ UNCHANGED <<products, users, profiles, now, focus, log, flight, snap,
                 pg>>

\* includeDeleted is read from the query and not used
GetCategoryById(id, query) ==
  /\ LET gate == Gate(CategoryIdParamFails(id, query.includeDeleted))
     IN  IF gate # 0
         THEN last' = Response("getCategoryById", id, gate, NoRows)
         ELSE IF ~CategoryInScope(id, TRUE)
         THEN last' = Response("getCategoryById", id, 404, NoRows)
         ELSE last' = Response("getCategoryById", id, 200, {id})
  /\ UNCHANGED <<categories, products, users, profiles, now, focus, log,
                 flight, snap, pg>>

\* `!x` of a query-string value: only an absent parameter (default false)
\* is falsy, the strings "true" and "false" are both truthy
NotQ(x) == x = UndefinedQ

\* where.isActive as the controller builds it: "undefined" when left out
ListWhereIsActive(query) ==
  IF query.isActive # UndefinedQ
  THEN (IF query.isActive = "true" THEN "true" ELSE "false")
  ELSE IF NotQ(query.includeInactive) THEN "true"
  ELSE "undefined"

\* the default scope's where {isActive: true} fills the key the caller left out
ScopedIsActive(where) == IF where = "undefined" THEN TRUE ELSE where = "true"

CategoryListRows(query) ==
  {i \in 1..Len(categories) :
     /\ categories[i].isActive = ScopedIsActive(ListWhereIsActive(query))
     /\ (NotQ(query.includeDeleted) => categories[i].deletedAt = NullTime)}

GetAllCategories(query) ==
  /\ last' = Response("getAllCategories", 0, 200, CategoryListRows(query))
  /\ UNCHANGED <<categories, products, users, profiles, now, focus, log,
                 flight, snap, pg>>

(***************************************************************************)
(* Numbers as JavaScript sees them.  A JSON or form body carries a decimal *)
(* as a number or as a string; a DECIMAL(10, 3) column read back from the  *)
(* table is a string with three fractional digits.  `<` and `>` compare    *)
(* two strings character by character and anything else numerically.       *)
(***************************************************************************)
DigitCode(d) == 48 + d
DotCode == 46

RECURSIVE Digits(_)
Digits(n) == IF n < 10 THEN <<DigitCode(n)>>
             ELSE Digits(n \div 10) \o <<DigitCode(n % 10)>>

Num(n) == [t |-> "num", v |-> n, s |-> <<>>]
Str(n) == [t |-> "str", v |-> n, s |-> Digits(n)]
Dec(n) == [t |-> "str", v |-> n,
           s |-> Digits(n) \o <<DotCode, DigitCode(0), DigitCode(0), DigitCode(0)>>]
UndefinedNum == [t |-> "undefined", v |-> 0, s |-> <<>>]
NullNum == [t |-> "null", v |-> 0, s |-> <<>>]

RECURSIVE LexLess(_, _)
LexLess(a, b) ==
  IF b = <<>> THEN FALSE
  ELSE IF a = <<>> THEN TRUE
  ELSE IF Head(a) # Head(b) THEN Head(a) < Head(b)
  ELSE LexLess(Tail(a), Tail(b))

\* a < b
JsLess(a, b) ==
  IF a.t = "undefined" \/ b.t = "undefined" THEN FALSE      \* NaN
  ELSE IF a.t = "str" /\ b.t = "str" THEN LexLess(a.s, b.s)
  ELSE a.v < b.v

JsGreater(a, b) == JsLess(b, a)

NullQty == -1     \* a NULL minQuantity / maxQuantity column

StoredQty(x) == IF x.t \in {"undefined", "null"} THEN NullQty ELSE x.v
LoadedQty(n) == IF n = NullQty THEN NullNum ELSE Dec(n)

(***************************************************************************)
(* Product model                                                           *)
(***************************************************************************)
ProductInScopeNeverParanoid(id, paranoid) ==
  /\ id \in 1..Len(products)
  /\ products[id].isActive

ProductInScope(id, paranoid) ==
  /\ id \in 1..Len(products)
  /\ products[id].isActive
  /\ (paranoid => products[id].deletedAt = NullTime)

\* the instance findOne() builds from a row
ProductInstance(id) ==
  LET r == products[id]
  IN  [categoryId |-> r.categoryId, name |-> r.name, slug |-> r.slug,
       quantity |-> Dec(r.quantity),
       minQuantity |-> LoadedQty(r.minQuantity),
       maxQuantity |-> LoadedQty(r.maxQuantity),
       inStock |-> r.inStock, isActive |-> r.isActive,
       deletedAt |-> UndefinedTime]

\* Product.build(): attribute defaults; attributes without one stay undefined
NewProduct ==
  [categoryId |-> 0, name |-> UndefinedStr, slug |-> UndefinedStr,
   quantity |-> Num(0), minQuantity |-> UndefinedNum,
   maxQuantity |-> UndefinedNum, inStock |-> TRUE, isActive |-> TRUE,
   deletedAt |-> NullTime]

\* name.set(value)
ProductSetName(inst, value) ==
  [inst EXCEPT !.name = Trim(value),
               !.slug = IF Falsy(inst.slug) THEN Slugify(value) ELSE inst.slug]

ProductSet(inst, body) ==
  LET a == IF body.categoryId # 0 THEN [inst EXCEPT !.categoryId = body.categoryId]
           ELSE inst
      b == IF body.name # UndefinedStr THEN ProductSetName(a, body.name) ELSE a
      c == IF body.slug # UndefinedStr THEN [b EXCEPT !.slug = body.slug] ELSE b
      d == IF body.quantity.t # "undefined"
           THEN [c EXCEPT !.quantity = body.quantity] ELSE c
      e == IF body.minQuantity.t # "undefined"
           THEN [d EXCEPT !.minQuantity = body.minQuantity] ELSE d
      f == IF body.maxQuantity.t # "undefined"
           THEN [e EXCEPT !.maxQuantity = body.maxQuantity] ELSE e
      g == IF body.inStock # "undefined"
           THEN [f EXCEPT !.inStock = (body.inStock = "true")] ELSE f
  IN  IF body.isActive # "undefined"
      THEN [g EXCEPT !.isActive = (body.isActive = "true")]
      ELSE g

\* hooks.beforeValidate
ProductBeforeValidate(inst) ==
  LET a == IF Truthy(inst.name) /\ Falsy(inst.slug)
           THEN [inst EXCEPT !.slug = Slugify(inst.name)]
           ELSE inst
      b == IF Truthy(a.slug) THEN [a EXCEPT !.slug = ToLowerCase(a.slug)] ELSE a
  IN  IF b.quantity.t # "undefined"
      THEN [b EXCEPT !.inStock = JsGreater(b.quantity, Num(0))]
      ELSE b

\* maxQuantity.validate.isValidMax, run when maxQuantity is among the
\* fields being saved and holds a value
IsValidMaxFails(inst, fields) ==
  /\ "maxQuantity" \in fields
  /\ inst.maxQuantity.t \notin {"undefined", "null"}
  /\ inst.minQuantity.t # "null"
  /\ JsLess(inst.maxQuantity, inst.minQuantity)

ProductValid(inst, fields) ==
  /\ ("categoryId" \in fields => inst.categoryId # 0)
  /\ ("name" \in fields => inst.name \notin {UndefinedStr, NullStr, <<>>})
  /\ ("slug" \in fields =>
        inst.slug \notin {UndefinedStr, NullStr} /\ MatchesSlugPattern(inst.slug))
  /\ ~IsValidMaxFails(inst, fields)

\* hooks.beforeSave: TRUE when the hook throws
ProductBeforeSaveThrows(inst) ==
  \/ inst.minQuantity.t # "null" /\ JsLess(inst.quantity, inst.minQuantity)
  \/ inst.maxQuantity.t # "null" /\ JsGreater(inst.quantity, inst.maxQuantity)

ProductSlugTaken(slug, self) ==
  \E i \in 1..Len(products) : i # self /\ products[i].slug = slug

\* foreign key products.categoryId -> categories.id (any row, deleted or not)
CategoryRowExists(id) == id \in 1..Len(categories)

ProductSaveError(inst, fields, self) ==
  IF ~ProductValid(inst, fields) THEN "SequelizeValidationError"
  ELSE IF ProductBeforeSaveThrows(inst) THEN "Error"
  ELSE IF ProductSlugTaken(inst.slug, self) THEN "SequelizeUniqueConstraintError"
  ELSE IF ~CategoryRowExists(inst.categoryId)
       THEN "SequelizeForeignKeyConstraintError"
  ELSE ""

\* the row INSERT / UPDATE writes for an instance
ProductRow(inst, deletedAt) ==
  [categoryId |-> inst.categoryId, name |-> inst.name, slug |-> inst.slug,
   quantity |-> inst.quantity.v,
   minQuantity |-> StoredQty(inst.minQuantity),
   maxQuantity |-> StoredQty(inst.maxQuantity),
   inStock |-> inst.inStock, isActive |-> inst.isActive,
   deletedAt |-> deletedAt]

\* the row after instance.update(values): the UPDATE statement carries the
\* attributes named by the keys of values; what beforeValidate assigned to
\* any other attribute stays in the instance and is not written
ProductRowUpdated(row, inst, fields) ==
  [ProductRow(inst, row.deletedAt) EXCEPT
     !.slug = IF "slug" \in fields THEN @ ELSE row.slug,
     !.inStock = IF "inStock" \in fields THEN @ ELSE row.inStock]

AllProductFields ==
  {"categoryId", "name", "slug", "quantity", "minQuantity", "maxQuantity",
   "inStock", "isActive"}

\* instance.update(values): the keys the body carries are the fields saved
BodyFields(body) ==
  {f \in AllProductFields :
     \/ f = "categoryId" /\ body.categoryId # 0
     \/ f = "name" /\ body.name # UndefinedStr
     \/ f = "slug" /\ body.slug # UndefinedStr
     \/ f = "quantity" /\ body.quantity.t # "undefined"
     \/ f = "minQuantity" /\ body.minQuantity.t # "undefined"
     \/ f = "maxQuantity" /\ body.maxQuantity.t # "undefined"
     \/ f = "inStock" /\ body.inStock # "undefined"
     \/ f = "isActive" /\ body.isActive # "undefined"}

(***************************************************************************)
(* Product validation chains                                               *)
(***************************************************************************)
ProductSanitize(body) ==
  [body EXCEPT !.name = IF @ = UndefinedStr THEN @ ELSE Trim(@),
               !.slug = IF @ = UndefinedStr THEN @ ELSE Trim(@)]

ProductIdParamFails(id, includeDeleted) ==
  ~ProductInScope(id, includeDeleted # "true")

\* body("categoryId").isInt().custom(category found and active)
ProductCategoryIdFails(body) ==
  IF body.categoryId = 0 THEN AbsentFails("product.categoryId")
  ELSE ~CategoryInScope(body.categoryId, TRUE)

\* body("name").notEmpty()...custom(name not taken)
ProductNameFails(body, self) ==
  IF body.name = UndefinedStr THEN AbsentFails("product.name")
  ELSE \/ Trim(body.name) = <<>>
       \/ \E i \in 1..Len(products) :
            /\ i # self
            /\ ProductInScope(i, TRUE)
            /\ products[i].name = Trim(body.name)

ProductBodyFails(body, self) ==
  \/ ProductCategoryIdFails(body)
  \/ ProductNameFails(body, self)
  \/ /\ body.slug # UndefinedStr
     /\ \/ ~MatchesSlugPattern(body.slug)
        \/ \E i \in 1..Len(products) :
             /\ i # self
             /\ ProductInScope(i, TRUE)
             /\ products[i].slug = body.slug
  \/ /\ body.minQuantity.t # "undefined"
     /\ body.maxQuantity.t # "undefined"
     /\ body.minQuantity.v > body.maxQuantity.v

(***************************************************************************)
(* Product controller                                                      *)
(***************************************************************************)
\* if (data.name && !data.slug) data.slug = slugify(data.name)
ProductData(body) ==
  IF Truthy(body.name) /\ Falsy(body.slug)
  THEN [body EXCEPT !.slug = Slugify(body.name)]
  ELSE body

CreateProduct(raw) ==
  /\ Len(products) < MaxProducts
  /\ LET gate == Gate(ProductBodyFails(raw, 0))
         body == ProductData(ProductSanitize(raw))
         inst == ProductBeforeValidate(ProductSet(NewProduct, body))
         err == ProductSaveError(inst, AllProductFields, 0)
     IN  IF gate # 0
         THEN /\ last' = Response("createProduct", 0, gate, NoRows)
              /\ UNCHANGED <<products, snap>>
         ELSE IF err # ""
         THEN /\ last' = ErrorResponse("createProduct", 0, err)
              /\ UNCHANGED <<products, snap>>
         ELSE /\ products' = Append(products,
                  ProductRow(inst, SetDeletedAt(NewProduct, body.deletedAt,
                                                TRUE).deletedAt))
              /\ snap' = [snap EXCEPT !.product = Append(@, ProductRow(NewProduct, NullTime))]
              /\ last' = Response("createProduct", Len(products) + 1, 201,
                                  NoRows)
  /\ UNCHANGED <<categories, users, profiles, now, focus, log, flight, pg>>

UpdateProduct(id, raw) ==
  /\ LET gate == Gate(ProductIdParamFails(id, UndefinedQ)
                      \/ ProductBodyFails(raw, id))
         body == ProductData(ProductSanitize(raw))
     IN  IF gate # 0
         THEN /\ last' = Response("updateProduct", id, gate, NoRows)
              /\ UNCHANGED <<products, snap>>
         ELSE IF ~ProductInScope(id, TRUE)
         THEN /\ last' = Response("updateProduct", id, 404, NoRows)
              /\ UNCHANGED <<products, snap>>
         ELSE LET inst == ProductBeforeValidate(ProductSet(ProductInstance(id), body))
                  err == ProductSaveError(inst, BodyFields(body), id)
              IN  IF err # ""
                  THEN /\ last' = ErrorResponse("updateProduct", id, err)
                       /\ UNCHANGED <<products, snap>>
                  ELSE /\ products' = [products EXCEPT
                         ![id] = ProductRowUpdated(
                                   SetDeletedAt(products[id], body.deletedAt,
                                                FALSE),
                                   inst, BodyFields(body))]
                       /\ snap' = [snap EXCEPT
                                     !.product[id] = ProductRow(NewProduct, NullTime)]
                       /\ last' = Response("updateProduct", id, 200, NoRows)
  /\ UNCHANGED <<categories, users, profiles, now, focus, log, flight, pg>>

DeleteProduct(id) ==
  /\ now < MaxTime
  /\ LET gate == Gate(ProductIdParamFails(id, UndefinedQ))
     IN  IF gate # 0
         THEN /\ last' = Response("deleteProduct", id, gate, NoRows)
              /\ UNCHANGED <<products, snap, now>>
         ELSE IF ~ProductInScope(id, TRUE)
         THEN /\ last' = Response("deleteProduct", id, 404, NoRows)
              /\ UNCHANGED <<products, snap, now>>
         ELSE /\ products' = [products EXCEPT ![id].deletedAt = now]
              /\ snap' = [snap EXCEPT !.product[id] = products[id]]
              /\ last' = Response("deleteProduct", id, 200, NoRows)
              /\ now' = now + 1
  /\ UNCHANGED <<categories, users, profiles, focus, log, flight, pg>>

RestoreProduct(id) ==
  /\ LET gate == Gate(ProductIdParamFails(id, UndefinedQ))
     IN  IF gate # 0
         THEN /\ last' = Response("restoreProduct", id, gate, NoRows)
              /\ UNCHANGED products
         ELSE IF ~ProductInScope(id, FALSE)
         THEN /\ last' = Response("restoreProduct", id, 404, NoRows)
              /\ UNCHANGED products
         ELSE IF ProductInstance(id).deletedAt = NullTime
         THEN /\ last' = Response("restoreProduct", id, 400, NoRows)
              /\ UNCHANGED products
         ELSE /\ products' = [products EXCEPT ![id].deletedAt = NullTime]
              /\ last' = Response("restoreProduct", id, 200, NoRows)
  /\ UNCHANGED <<categories, users, profiles, now, focus, log, flight,
                 snap, pg>>

\* paranoid: !includeDeleted
GetProductById(id, query) ==
  /\ LET gate == Gate(ProductIdParamFails(id, query.includeDeleted))
     IN  IF gate # 0
         THEN last' = Response("getProductById", id, gate, NoRows)
         ELSE IF ~ProductInScope(id, NotQ(query.includeDeleted))
         THEN last' = Response("getProductById", id, 404, NoRows)
         ELSE last' = Response("getProductById", id, 200, {id})
  /\ UNCHANGED <<categories, products, users, profiles, now, focus, log,
                 flight, snap, pg>>

ProductListRows(query) ==
  {i \in 1..Len(products) :
     /\ products[i].isActive = ScopedIsActive(ListWhereIsActive(query))
     /\ (NotQ(query.includeDeleted) => products[i].deletedAt = NullTime)}

GetAllProducts(query) ==
  /\ last' = Response("getAllProducts", 0, 200, ProductListRows(query))
  /\ UNCHANGED <<categories, products, users, profiles, now, focus, log,
                 flight, snap, pg>>

(***************************************************************************)
(* User and AdminProfile models                                            *)
(***************************************************************************)
\* bcrypt.hash(password, 12)
Hash(password) == <<"bcrypt", password>>

NoHash == <<"bcrypt", "undefined">>

\* User has no isActive scope; paranoid hides soft-deleted rows
AdminFound(id, paranoid) ==
  /\ id \in 1..Len(users)
  /\ users[id].accountType = "admin"
  /\ (paranoid => users[id].deletedAt = NullTime)

\* the hasOne include: the profile row of a user, 0 when there is none
ProfileOf(uid, paranoid) ==
  LET found == {p \in 1..Len(profiles) :
                  /\ profiles[p].userId = uid
                  /\ (paranoid => profiles[p].deletedAt = NullTime)}
  IN  IF found = {} THEN 0 ELSE CHOOSE p \in found : TRUE

\* User.findOne({where: {email}}): paranoid, any account type
LiveUserWithEmail(email, self) ==
  \E i \in 1..Len(users) :
    i # self /\ users[i].email = email /\ users[i].deletedAt = NullTime

\* Variant: a unique index that leaves soft-deleted rows out.
EmailTakenAmongLive(email, self) ==
  \E i \in 1..Len(users) :
    i # self /\ users[i].email = email /\ users[i].deletedAt = NullTime

\* unique index on users.email: every row counts
EmailTaken(email, self) ==
  \E i \in 1..Len(users) : i # self /\ users[i].email = email

\* User attribute validators (allowNull: false on email and password)
UserValid(email, password) == email # "undefined" /\ password # "undefined"

UserCreateError(email, password) ==
  IF ~UserValid(email, password) THEN "SequelizeValidationError"
  ELSE IF EmailTaken(email, 0) THEN "SequelizeUniqueConstraintError"
  ELSE ""

\* beforeCreate: the password is hashed and lastPasswordChange set
NewUser(email, password) ==
  [email |-> email, password |-> Hash(password), accountType |-> "admin",
   isActive |-> TRUE, lastPasswordChange |-> now, deletedAt |-> NullTime]

\* AdminProfile attribute validators (allowNull: false on firstName)
ProfileCreateError(firstName) ==
  IF firstName = "undefined" THEN "SequelizeValidationError" ELSE ""

NewProfile(uid, firstName) ==
  [userId |-> uid, firstName |-> firstName, deletedAt |-> NullTime]

\* an object without a password attribute
NoPassword == <<>>

\* defaultScope: attributes exclude password
UserInScope(row) == [row EXCEPT !.password = NoPassword]

\* Variant: a toJSON() that returns every attribute.
UserToJSONKeepsPassword(row) == row

\* toJSON(): delete values.password
UserToJSON(row) == [row EXCEPT !.password = NoPassword]

\* the password attributes in a body that serialises these instances
BodySecrets(instances) ==
  {UserToJSON(u).password : u \in instances} \ {NoPassword}

\* morgan token `body`: JSON.stringify(req.body) unless the method is GET;
\* the line is written when the response ends, after express.json() ran
HttpLogPasswords(method, body) ==
  IF method # "GET" /\ body.password # "undefined"
  THEN {body.password}
  ELSE {}

(***************************************************************************)
(* Admin validation chains                                                 *)
(***************************************************************************)
AdminIdParamFails(id, includeDeleted) == ~AdminFound(id, includeDeleted # "true")

\* validateEmail.custom: another live admin holds the email
AdminEmailFails(body, self) ==
  IF body.email = "undefined" THEN AbsentFails("validateEmail")
  ELSE LiveUserWithEmail(body.email, self)

\* validatePassword is the one chain of the create list left mandatory
AdminPasswordFails(body) ==
  body.password = "undefined" /\ AbsentFails("validatePassword")

\* body("firstName").notEmpty()
AdminFirstNameFails(body) ==
  body.firstName = "undefined" /\ AbsentFails("firstName")

(***************************************************************************)
(* Admin controller                                                        *)
(***************************************************************************)
NoUser == [email |-> "undefined", password |-> NoHash, accountType |-> "admin",
           isActive |-> TRUE, lastPasswordChange |-> NullTime,
           deletedAt |-> NullTime]

NoProfile == [userId |-> 0, firstName |-> "undefined", deletedAt |-> NullTime]

CreateAdmin(body) ==
  /\ Len(users) < MaxUsers
  /\ LET gate == Gate(\/ AdminEmailFails(body, 0)
                      \/ AdminPasswordFails(body)
                      \/ AdminFirstNameFails(body))
         uerr == UserCreateError(body.email, body.password)
         perr == ProfileCreateError(body.firstName)
         uid == Len(users) + 1
     IN  IF gate # 0
         THEN /\ last' = Response("createAdmin", 0, gate, NoRows)
              /\ UNCHANGED <<users, profiles, snap>>
         ELSE IF body.email = "undefined"
         THEN \* findOne({where: {email: undefined}}) throws
              /\ last' = ErrorResponse("createAdmin", 0, "Error")
              /\ UNCHANGED <<users, profiles, snap>>
         ELSE IF LiveUserWithEmail(body.email, 0)
         THEN /\ last' = Response("createAdmin", 0, 400, NoRows)
              /\ UNCHANGED <<users, profiles, snap>>
         ELSE IF uerr # ""
         THEN /\ last' = ErrorResponse("createAdmin", 0, uerr)
              /\ UNCHANGED <<users, profiles, snap>>
         ELSE IF perr # ""
         THEN \* the user row is already written
              /\ users' = Append(users, NewUser(body.email, body.password))
              /\ snap' = [snap EXCEPT !.user = Append(@, NoUser)]
              /\ last' = ErrorResponse("createAdmin", uid, perr)
              /\ UNCHANGED profiles
         ELSE /\ users' = Append(users, NewUser(body.email, body.password))
              /\ profiles' = Append(profiles, NewProfile(uid, body.firstName))
              /\ snap' = [snap EXCEPT !.user = Append(@, NoUser),
                                      !.profile = Append(@, NoProfile)]
              /\ last' = [Response("createAdmin", uid, 201, NoRows) EXCEPT
                            !.secrets = BodySecrets(
                               {NewUser(body.email, body.password)})]
  /\ log' = log \cup HttpLogPasswords("POST", body)
  /\ UNCHANGED <<categories, products, now, focus, flight, pg>>

\* admin.update(updateData): every key of the body that names a User
\* attribute is set (email, password and lastPasswordChange are the ones the
\* payloads carry); beforeUpdate rehashes a changed password and stamps
\* lastPasswordChange, over the value the body gave
UserUpdated(row, body) ==
  LET a == IF body.email # "undefined" THEN [row EXCEPT !.email = body.email]
           ELSE row
      b == IF body.lastPasswordChange # UndefinedTime
           THEN [a EXCEPT !.lastPasswordChange = body.lastPasswordChange]
           ELSE a
  IN  IF body.password # "undefined"
      THEN [b EXCEPT !.password = Hash(body.password),
                     !.lastPasswordChange = now]
      ELSE b

ProfileUpdated(row, body) ==
  IF body.firstName # "undefined"
  THEN [row EXCEPT !.firstName = body.firstName]
  ELSE row

UpdateAdmin(id, body) ==
  /\ LET gate == Gate(AdminIdParamFails(id, UndefinedQ)
                      \/ AdminEmailFails(body, id))
         pid == ProfileOf(id, TRUE)
         touchesUser == body.email # "undefined" \/ body.password # "undefined"
     IN  IF gate # 0
         THEN /\ last' = Response("updateAdmin", id, gate, NoRows)
              /\ UNCHANGED <<users, profiles, snap>>
         ELSE IF ~AdminFound(id, TRUE)
         THEN /\ last' = Response("updateAdmin", id, 404, NoRows)
              /\ UNCHANGED <<users, profiles, snap>>
         ELSE IF /\ body.email # "undefined"
                 /\ body.email # users[id].email
                 /\ LiveUserWithEmail(body.email, id)
         THEN /\ last' = Response("updateAdmin", id, 400, NoRows)
              /\ UNCHANGED <<users, profiles, snap>>
         ELSE IF touchesUser /\ body.email # "undefined"
                 /\ EmailTaken(body.email, id)
         THEN /\ last' = ErrorResponse("updateAdmin", id,
                                       "SequelizeUniqueConstraintError")
              /\ UNCHANGED <<users, profiles, snap>>
         ELSE /\ users' = IF touchesUser
                          THEN [users EXCEPT ![id] =
                                  SetDeletedAt(UserUpdated(@, body),
                                               body.deletedAt, FALSE)]
                          ELSE users
              /\ profiles' = IF pid # 0
                             THEN [profiles EXCEPT ![pid] =
                                     SetDeletedAt(ProfileUpdated(@, body),
                                                  body.deletedAt, FALSE)]
                             ELSE profiles
              /\ snap' = [snap EXCEPT
                            !.user[id] = NoUser,
                            !.profile = IF pid # 0
                                        THEN [@ EXCEPT ![pid] = NoProfile]
                                        ELSE @]
              /\ last' = [Response("updateAdmin", id, 200, NoRows) EXCEPT
                            !.secrets = BodySecrets({UserInScope(users'[id])})]
  /\ log' = log \cup HttpLogPasswords("PUT", body)
  /\ UNCHANGED <<categories, products, now, focus, flight, pg>>

DeleteAdmin(id) ==
  /\ now < MaxTime
  /\ LET gate == Gate(AdminIdParamFails(id, UndefinedQ))
         pid == ProfileOf(id, TRUE)
     IN  IF gate # 0
         THEN /\ last' = Response("deleteAdmin", id, gate, NoRows)
              /\ UNCHANGED <<users, profiles, snap, now>>
         ELSE IF ~AdminFound(id, TRUE)
         THEN /\ last' = Response("deleteAdmin", id, 404, NoRows)
              /\ UNCHANGED <<users, profiles, snap, now>>
         ELSE /\ profiles' = IF pid # 0
                             THEN [profiles EXCEPT ![pid].deletedAt = now]
                             ELSE profiles
              /\ users' = [users EXCEPT ![id].deletedAt = now]
              /\ snap' = [snap EXCEPT
                            !.user[id] = users[id],
                            !.profile = IF pid # 0
                                        THEN [@ EXCEPT ![pid] = profiles[pid]]
                                        ELSE @]
              /\ last' = Response("deleteAdmin", id, 200, NoRows)
              /\ now' = now + 1
  /\ UNCHANGED <<categories, products, focus, log, flight, pg>>

\* no check that the admin is deleted: restore() runs on whatever is found
RestoreAdmin(id) ==
  /\ LET gate == Gate(AdminIdParamFails(id, UndefinedQ))
         pid == ProfileOf(id, FALSE)
     IN  IF gate # 0
         THEN /\ last' = Response("restoreAdmin", id, gate, NoRows)
              /\ UNCHANGED <<users, profiles>>
         ELSE IF ~AdminFound(id, FALSE)
         THEN /\ last' = Response("restoreAdmin", id, 404, NoRows)
              /\ UNCHANGED <<users, profiles>>
         ELSE /\ users' = [users EXCEPT ![id].deletedAt = NullTime]
              /\ profiles' = IF pid # 0
                             THEN [profiles EXCEPT ![pid].deletedAt = NullTime]
                             ELSE profiles
              /\ last' = Response("restoreAdmin", id, 200, NoRows)
  /\ UNCHANGED <<categories, products, now, focus, log, flight, snap, pg>>

GetAdminById(id, query) ==
  /\ LET gate == Gate(AdminIdParamFails(id, query.includeDeleted))
     IN  IF gate # 0
         THEN last' = Response("getAdminById", id, gate, NoRows)
         ELSE IF ~AdminFound(id, TRUE)
         THEN last' = Response("getAdminById", id, 404, NoRows)
         ELSE last' = [Response("getAdminById", id, 200, {id}) EXCEPT
                         !.secrets = BodySecrets({UserInScope(users[id])})]
  /\ UNCHANGED <<categories, products, users, profiles, now, focus, log,
                 flight, snap, pg>>

\* paranoid: includeDeleted !== "true"; isActive only when given
AdminListRows(query) ==
  {i \in 1..Len(users) :
     /\ users[i].accountType = "admin"
     /\ (query.isActive # UndefinedQ =>
           users[i].isActive = (query.isActive = "true"))
     /\ (query.includeDeleted # "true" => users[i].deletedAt = NullTime)}

GetAllAdmins(query) ==
  /\ last' = [Response("getAllAdmins", 0, 200, AdminListRows(query)) EXCEPT
                !.secrets = BodySecrets({UserInScope(users[i]) :
                                           i \in AdminListRows(query)})]
  /\ UNCHANGED <<categories, products, users, profiles, now, focus, log,
                 flight, snap, pg>>

(***************************************************************************)
(* deleteAdmin and restoreAdmin step by step.  Each handler awaits a read  *)
(* and two writes; nothing wraps them in a transaction, so another request *)
(* may run between two awaits and an error may end the handler after the   *)
(* first write.  flight records, per handler, the await it has reached and *)
(* the instances its read returned.                                        *)
(***************************************************************************)
Idle == [pc |-> "idle", id |-> 0, pid |-> 0]

\* a request slot of the two that may overlap
IdleSlot == [pc |-> "idle", op |-> "none", id |-> 0, body |-> <<>>,
             failed |-> FALSE, status |-> 0, email |-> "undefined", pid |-> 0]

NoFlight == [delete |-> Idle, restore |-> Idle, race |-> <<IdleSlot, IdleSlot>>]

Quiescent == flight = NoFlight

\* deleteAdmin: User.findOne with the adminProfile include
BeginDeleteAdmin(id) ==
  /\ flight.delete = Idle
  /\ now < MaxTime
  /\ Gate(AdminIdParamFails(id, UndefinedQ)) = 0
  /\ IF ~AdminFound(id, TRUE)
     THEN /\ last' = Response("deleteAdmin", id, 404, NoRows)
          /\ UNCHANGED flight
     ELSE /\ flight' = [flight EXCEPT !.delete =
                          [pc |-> "found", id |-> id, pid |-> ProfileOf(id, TRUE)]]
          /\ UNCHANGED last
  /\ UNCHANGED <<categories, products, users, profiles, now, focus, log,
                 snap, pg>>

\* deleteAdmin: if (admin.adminProfile) await admin.adminProfile.destroy()
DeleteAdminProfileWrite ==
  /\ flight.delete.pc = "found"
  /\ profiles' = IF flight.delete.pid # 0
                 THEN [profiles EXCEPT ![flight.delete.pid].deletedAt = now]
                 ELSE profiles
  /\ flight' = [flight EXCEPT !.delete.pc = "profile"]
  /\ UNCHANGED <<categories, products, users, now, focus, log, last, snap,
                 pg>>

\* deleteAdmin: await admin.destroy(); res.status(200)
DeleteAdminUserWrite ==
  /\ flight.delete.pc = "profile"
  /\ users' = [users EXCEPT ![flight.delete.id].deletedAt = now]
  /\ now' = now + 1
  /\ last' = Response("deleteAdmin", flight.delete.id, 200, NoRows)
  /\ flight' = [flight EXCEPT !.delete = Idle]
  /\ UNCHANGED <<categories, products, profiles, focus, log, snap, pg>>

\* deleteAdmin: admin.destroy() rejects (the connection is lost); catch -> next(error)
DeleteAdminUserWriteFails ==
  /\ flight.delete.pc = "profile"
  /\ now' = now + 1
  /\ last' = ErrorResponse("deleteAdmin", flight.delete.id,
                           "SequelizeConnectionError")
  /\ flight' = [flight EXCEPT !.delete = Idle]
  /\ UNCHANGED <<categories, products, users, profiles, focus, log, snap, pg>>

\* restoreAdmin: User.findOne, paranoid: false on the user and on the include
BeginRestoreAdmin(id) ==
  /\ flight.restore = Idle
  /\ Gate(AdminIdParamFails(id, UndefinedQ)) = 0
  /\ IF ~AdminFound(id, FALSE)
     THEN /\ last' = Response("restoreAdmin", id, 404, NoRows)
          /\ UNCHANGED flight
     ELSE /\ flight' = [flight EXCEPT !.restore =
                          [pc |-> "found", id |-> id, pid |-> ProfileOf(id, FALSE)]]
          /\ UNCHANGED last
  /\ UNCHANGED <<categories, products, users, profiles, now, focus, log,
                 snap, pg>>

\* restoreAdmin: await admin.restore()
RestoreAdminUserWrite ==
  /\ flight.restore.pc = "found"
  /\ users' = [users EXCEPT ![flight.restore.id].deletedAt = NullTime]
  /\ flight' = [flight EXCEPT !.restore.pc = "user"]
  /\ UNCHANGED <<categories, products, profiles, now, focus, log, last,
                 snap, pg>>

\* restoreAdmin: if (admin.adminProfile) await admin.adminProfile.restore()
RestoreAdminProfileWrite ==
  /\ flight.restore.pc = "user"
  /\ profiles' = IF flight.restore.pid # 0
                 THEN [profiles EXCEPT ![flight.restore.pid].deletedAt = NullTime]
                 ELSE profiles
  /\ last' = Response("restoreAdmin", flight.restore.id, 200, NoRows)
  /\ flight' = [flight EXCEPT !.restore = Idle]
  /\ UNCHANGED <<categories, products, users, now, focus, log, snap, pg>>

\* restoreAdmin: adminProfile.restore() rejects; catch -> next(error)
RestoreAdminProfileWriteFails ==
  /\ flight.restore.pc = "user"
  /\ last' = ErrorResponse("restoreAdmin", flight.restore.id,
                           "SequelizeConnectionError")
  /\ flight' = [flight EXCEPT !.restore = Idle]
  /\ UNCHANGED <<categories, products, users, profiles, now, focus, log,
                 snap, pg>>

(***************************************************************************)
(* Pagination envelope.  page and limit arrive as query strings: a string  *)
(* is written here as its whole part and whether ".5" follows it.          *)
(* parseInt() keeps the whole part; `<` and `>` convert the string with    *)
(* Number(), which keeps the fraction.                                     *)
(***************************************************************************)
QueryNumber(whole, half) == [whole |-> whole, half |-> half]

ParseInt(q) == q.whole

\* twice Number(q), to stay within the integers
TwiceNumber(q) == 2 * q.whole + q.half

\* Math.ceil(count / limit)
CeilDiv(count, limit) == (count + limit - 1) \div limit

NullUrl == 0    \* a null nextPageUrl / prevPageUrl; otherwise the page it carries

\* categories and products: hasNext and hasPrev compare the raw query string
CoercingEnvelope(count, page, limit) ==
  LET totalPages == CeilDiv(count, limit)
  IN  [currentPage |-> ParseInt(page),
       totalPages |-> totalPages,
       totalItems |-> count,
       itemsPerPage |-> limit,
       hasNext |-> TwiceNumber(page) < 2 * totalPages,
       hasPrev |-> TwiceNumber(page) > 2,
       nextPageUrl |-> IF ParseInt(page) < totalPages
                       THEN ParseInt(page) + 1 ELSE NullUrl,
       prevPageUrl |-> IF ParseInt(page) > 1
                       THEN ParseInt(page) - 1 ELSE NullUrl]

\* admins: parseInt everywhere
ParsingEnvelope(count, page, limit) ==
  LET totalPages == CeilDiv(count, limit)
  IN  [currentPage |-> ParseInt(page),
       totalPages |-> totalPages,
       totalItems |-> count,
       itemsPerPage |-> limit,
       hasNext |-> ParseInt(page) < totalPages,
       hasPrev |-> ParseInt(page) > 1,
       nextPageUrl |-> IF ParseInt(page) < totalPages
                       THEN ParseInt(page) + 1 ELSE NullUrl,
       prevPageUrl |-> IF ParseInt(page) > 1
                       THEN ParseInt(page) - 1 ELSE NullUrl]

NoEnvelope == ParsingEnvelope(0, QueryNumber(0, 0), 1)

\* sortOrder.toUpperCase()
ToUpperCaseOrder(o) ==
  CASE o = "asc" -> "ASC"
    [] o = "desc" -> "DESC"
    [] o = "sideways" -> "SIDEWAYS"
    [] OTHER -> o

\* order: [[sortBy, sortOrder.toUpperCase()]], with the defaults of the
\* destructuring for absent parameters
OrderClause(sortBy, sortOrder, defaultBy, defaultOrder) ==
  [by |-> IF sortBy = UndefinedQ THEN defaultBy ELSE sortBy,
   dir |-> ToUpperCaseOrder(IF sortOrder = UndefinedQ THEN defaultOrder
                            ELSE sortOrder)]

\* no query was run
NoOrder == [by |-> "", dir |-> ""]

\* query("sortBy").optional().isIn([...]) of the product list chain
ProductSortFields == {"name", "price", "quantity", "createdAt", "updatedAt"}

\* the product list chain checks sortBy and sortOrder; the category and
\* admin list chains have no check on either
ProductSortFails(sortBy, sortOrder) ==
  \/ sortBy \notin ProductSortFields \cup {UndefinedQ}
  \/ sortOrder \notin {"ASC", "DESC", UndefinedQ}

\* query("page").isInt({min: 1})
PageFails(page) == page.half # 0 \/ page.whole < 1

CategoriesPagination ==
  /\ pg' = IF Gate(PageFails(pg.page)) # 0
           THEN [pg EXCEPT !.list = "categories"]
           ELSE [pg EXCEPT
                   !.list = "categories",
                   !.order = OrderClause(pg.sortBy, pg.sortOrder, "name", "ASC"),
                   !.env = CoercingEnvelope(pg.count, pg.page, pg.limit)]
  /\ UNCHANGED <<categories, products, users, profiles, now, focus, log,
                 flight, last, snap>>

ProductsPagination ==
  /\ pg' = IF Gate(PageFails(pg.page)
                   \/ ProductSortFails(pg.sortBy, pg.sortOrder)) # 0
           THEN [pg EXCEPT !.list = "products"]
           ELSE [pg EXCEPT
                   !.list = "products",
                   !.order = OrderClause(pg.sortBy, pg.sortOrder, "name", "ASC"),
                   !.env = CoercingEnvelope(pg.count, pg.page, pg.limit)]
  /\ UNCHANGED <<categories, products, users, profiles, now, focus, log,
                 flight, last, snap>>

AdminsPagination ==
  /\ pg' = IF Gate(PageFails(pg.page)) # 0
           THEN [pg EXCEPT !.list = "admins"]
           ELSE [pg EXCEPT
                   !.list = "admins",
                   !.order = OrderClause(pg.sortBy, pg.sortOrder,
                                         "createdAt", "DESC"),
                   !.env = ParsingEnvelope(pg.count, pg.page, pg.limit)]
  /\ UNCHANGED <<categories, products, users, profiles, now, focus, log,
                 flight, last, snap>>

AdminIds == 1..MaxUsers

AdminBodies ==
  [email : {"undefined", "e1", "e2"},
   password : {"undefined", "Passw0rd!"},
   firstName : {"undefined", "Al", "Bo"},
   id : {0}, deletedAt : {UndefinedTime},
   lastPasswordChange : {UndefinedTime}]

PageParams == {QueryNumber(w, h) : w \in 1..3, h \in {0, 1}}
LimitParams == 1..2

SortByParams == {UndefinedQ, "createdAt", "secret"}

SortOrderParams == {UndefinedQ, "ASC", "desc", "sideways"}

ProductIds == 1..MaxProducts

\* categoryId 0 stands for a body without the key
ProductBodies ==
  [categoryId : {0, 1, 2},
   name : CategoryNames \cup {UndefinedStr},
   slug : ExplicitSlugs \cup {UndefinedStr},
   isActive : BodyBools,
   quantity : {UndefinedNum}, minQuantity : {UndefinedNum},
   maxQuantity : {UndefinedNum}, inStock : {"undefined"},
   id : {0}, deletedAt : {UndefinedTime}]

StockBodies ==
  [categoryId : {0, 1},
   name : {<<"A", " ", "b">>, UndefinedStr},
   slug : {UndefinedStr},
   isActive : {"undefined"},
   quantity : {UndefinedNum, Num(3), Num(7), Num(12), Str(7)},
   minQuantity : {UndefinedNum, Num(5), Str(10)},
   maxQuantity : {UndefinedNum, Num(10), Str(7)}, inStock : {"undefined"},
   id : {0}, deletedAt : {UndefinedTime}]

\* bodies that name a category, with or without a product name
ReferenceBodies ==
  [categoryId : {0, 1, 2},
   name : {<<"A", " ", "b">>, UndefinedStr},
   slug : {UndefinedStr},
   isActive : {"undefined"},
   quantity : {UndefinedNum}, minQuantity : {UndefinedNum},
   maxQuantity : {UndefinedNum}, inStock : {"undefined"},
   id : {0}, deletedAt : {UndefinedTime}]

\* two creates with one name, each with or without a slug of its own
RaceCategoryBodies ==
  [name : {<<"A", " ", "b">>}, slug : {UndefinedStr, <<"x">>},
   isActive : {"undefined"}, id : {0}, deletedAt : {UndefinedTime}]

RaceSlots == 1..2

\* a date that a payload carries
PayloadDate == 9

\* update payloads with or without email, password, firstName and a
\* lastPasswordChange key of their own
PasswordBodies ==
  [email : {"undefined", "e2"}, password : {"undefined", "N3wpass!"},
   firstName : {"undefined", "Bo"}, id : {0}, deletedAt : {UndefinedTime},
   lastPasswordChange : {UndefinedTime, PayloadDate}]

\* update payloads that switch isActive and carry nothing else
DeactivationBodies ==
  [name : {UndefinedStr}, slug : {UndefinedStr}, isActive : BodyBools,
   id : {0}, deletedAt : {UndefinedTime}]

\* an admin that holds another email than the overlapping requests ask for
RaceSeedAdmin ==
  [email |-> "e2", password |-> "Passw0rd!", firstName |-> "Bo",
   id |-> 0, deletedAt |-> UndefinedTime,
   lastPasswordChange |-> UndefinedTime]

\* overlapping admin requests ask for one email
RaceAdminBodies ==
  [email : {"e1"}, password : {"Passw0rd!"}, firstName : {"Al"},
   id : {0}, deletedAt : {UndefinedTime},
   lastPasswordChange : {UndefinedTime}]

RaceAdminUpdates ==
  [email : {"e1"}, password : {"undefined"}, firstName : {"undefined"},
   id : {0}, deletedAt : {UndefinedTime},
   lastPasswordChange : {UndefinedTime}]

SeedAdmin ==
  [email |-> "e1", password |-> "Passw0rd!", firstName |-> "Al",
   id |-> 0, deletedAt |-> UndefinedTime,
   lastPasswordChange |-> UndefinedTime]

SeedCategory ==
  [name |-> <<"A", " ", "b">>, slug |-> UndefinedStr, isActive |-> "undefined",
   id |-> 0, deletedAt |-> UndefinedTime]

SeedProduct ==
  [categoryId |-> 1, name |-> <<"A", " ", "b">>, slug |-> UndefinedStr,
   isActive |-> "undefined", quantity |-> UndefinedNum,
   minQuantity |-> UndefinedNum, maxQuantity |-> UndefinedNum,
   inStock |-> "undefined", id |-> 0, deletedAt |-> UndefinedTime]

\* payloads whose slug is absent, upper-case or outside the pattern, and
\* whose name slugifies to a slug or to the empty string
SlugCategoryBodies ==
  [name : {<<"A", " ", "b">>, <<"!">>, UndefinedStr},
   slug : {UndefinedStr, <<"A", "-", "b">>, <<"x">>, <<"!">>},
   isActive : {"undefined"}, id : {0}, deletedAt : {UndefinedTime}]

SlugProductBodies ==
  [categoryId : {0, 1},
   name : {<<"A", " ", "b">>, <<"!">>, UndefinedStr},
   slug : {UndefinedStr, <<"A", "-", "b">>, <<"x">>, <<"!">>},
   isActive : {"undefined"},
   quantity : {UndefinedNum}, minQuantity : {UndefinedNum},
   maxQuantity : {UndefinedNum}, inStock : {"undefined"},
   id : {0}, deletedAt : {UndefinedTime}]

\* payloads with a quantity, an explicit inStock, both or neither
InStockBodies ==
  [categoryId : {0, 1}, name : {<<"A", " ", "b">>, UndefinedStr},
   slug : {UndefinedStr}, isActive : {"undefined"},
   quantity : {UndefinedNum, Num(0), Num(7)},
   minQuantity : {UndefinedNum}, maxQuantity : {UndefinedNum},
   inStock : BodyBools, id : {0}, deletedAt : {UndefinedTime}]

\* update payloads that also carry an id or a deletedAt key (id 0 and
\* deletedAt UndefinedTime stand for a body without the key); create
\* payloads carry neither
CategoryFrameBodies ==
  [name : {<<"A", " ", "b">>, UndefinedStr},
   slug : {UndefinedStr}, isActive : {"undefined"},
   id : {0, 2}, deletedAt : {UndefinedTime, 0}]

ProductFrameBodies ==
  [categoryId : {0}, name : {<<"A", " ", "b">>, UndefinedStr},
   slug : {UndefinedStr}, isActive : {"undefined"},
   quantity : {UndefinedNum}, minQuantity : {UndefinedNum},
   maxQuantity : {UndefinedNum}, inStock : {"undefined"},
   id : {0, 2}, deletedAt : {UndefinedTime, 0}]

AdminFrameBodies ==
  [email : {"undefined", "e1"}, password : {"undefined"},
   firstName : {"undefined", "Bo"},
   id : {0, 2}, deletedAt : {UndefinedTime, 0},
   lastPasswordChange : {UndefinedTime}]

(***************************************************************************)
(* Specification                                                           *)
(***************************************************************************)
NoSnap == [category |-> <<>>, product |-> <<>>, user |-> <<>>, profile |-> <<>>]

NoPg == [list |-> "none", count |-> 0, page |-> QueryNumber(1, 0), limit |-> 1,
         sortBy |-> UndefinedQ, sortOrder |-> UndefinedQ,
         env |-> NoEnvelope, order |-> NoOrder]

Init ==
  /\ categories = <<>>
  /\ products = <<>>
  /\ users = <<>>
  /\ profiles = <<>>
  /\ now = 0
  /\ focus \in {"categories", "products", "stock", "admins", "pagination",
                "sorting", "references", "frames", "availability", "slugs",
                "races", "adminraces", "deactivation", "passwords",
                "composite"}
  /\ flight = NoFlight
  /\ log = {}
  /\ last = Response("none", 0, 0, NoRows)
  /\ snap = NoSnap
  /\ pg \in IF focus = "pagination"
            THEN {[NoPg EXCEPT !.count = c, !.page = p, !.limit = l] :
                    c \in 0..MaxCount, p \in PageParams, l \in LimitParams}
            ELSE IF focus = "sorting"
            THEN {[NoPg EXCEPT !.sortBy = b, !.sortOrder = o] :
                    b \in SortByParams, o \in SortOrderParams}
            ELSE {NoPg}

\* One disjunct per route; a behaviour's requests all go to the routes of
\* the router it exercises.
CategoryTraffic ==
  \/ focus = "categories" /\ \E b \in CategoryBodies : CreateCategory(b)
  \/ focus = "categories" /\ \E i \in CategoryIds, b \in CategoryBodies :
                               UpdateCategory(i, b)
  \/ focus = "categories" /\ \E i \in CategoryIds : DeleteCategory(i)
  \/ focus = "categories" /\ \E i \in CategoryIds : RestoreCategory(i)
  \/ focus = "categories" /\ \E i \in CategoryIds, q \in DetailQueries :
                               GetCategoryById(i, q)
  \/ focus = "categories" /\ \E q \in ListQueries : GetAllCategories(q)

ProductTraffic ==
  \/ focus = "products" /\ CreateCategory(SeedCategory)
  \/ focus = "products" /\ \E b \in ProductBodies : CreateProduct(b)
  \/ focus = "products" /\ \E i \in ProductIds, b \in ProductBodies :
                             UpdateProduct(i, b)
  \/ focus = "products" /\ \E i \in ProductIds : DeleteProduct(i)
  \/ focus = "products" /\ \E i \in ProductIds : RestoreProduct(i)
  \/ focus = "products" /\ \E i \in ProductIds, q \in DetailQueries :
                             GetProductById(i, q)
  \/ focus = "products" /\ \E q \in ListQueries : GetAllProducts(q)

StockTraffic ==
  \/ focus = "stock" /\ CreateCategory(SeedCategory)
  \/ focus = "stock" /\ \E b \in StockBodies : CreateProduct(b)
  \/ focus = "stock" /\ \E i \in ProductIds, b \in StockBodies :
                          UpdateProduct(i, b)

ReferenceTraffic ==
  \/ focus = "references" /\ CreateCategory(SeedCategory)
  \/ focus = "references" /\ \E i \in CategoryIds : DeleteCategory(i)
  \/ focus = "references" /\ \E b \in ReferenceBodies : CreateProduct(b)
  \/ focus = "references" /\ \E i \in ProductIds, b \in ReferenceBodies :
                               UpdateProduct(i, b)

FrameTraffic ==
  \/ focus = "frames" /\ CreateCategory(SeedCategory)
  \/ focus = "frames" /\ \E i \in CategoryIds, b \in CategoryFrameBodies :
                           UpdateCategory(i, b)
  \/ focus = "frames" /\ \E i \in CategoryIds : DeleteCategory(i)
  \/ focus = "frames" /\ CreateProduct(SeedProduct)
  \/ focus = "frames" /\ \E i \in ProductIds, b \in ProductFrameBodies :
                           UpdateProduct(i, b)
  \/ focus = "frames" /\ \E i \in ProductIds : DeleteProduct(i)
  \/ focus = "frames" /\ CreateAdmin(SeedAdmin)
  \/ focus = "frames" /\ \E i \in AdminIds, b \in AdminFrameBodies :
                           UpdateAdmin(i, b)
  \/ focus = "frames" /\ \E i \in AdminIds : DeleteAdmin(i)

\* categories created active, switched by updates, with a product under them
DeactivationTraffic ==
  \/ focus = "deactivation" /\ CreateCategory(SeedCategory)
  \/ focus = "deactivation" /\ \E i \in CategoryIds, b \in DeactivationBodies :
                                 UpdateCategory(i, b)
  \/ focus = "deactivation" /\ \E i \in CategoryIds : DeleteCategory(i)
  \/ focus = "deactivation" /\ \E i \in CategoryIds : RestoreCategory(i)
  \/ focus = "deactivation" /\ \E i \in CategoryIds, q \in DetailQueries :
                                 GetCategoryById(i, q)
  \/ focus = "deactivation" /\ CreateProduct(SeedProduct)

InStockTraffic ==
  \/ focus = "availability" /\ CreateCategory(SeedCategory)
  \/ focus = "availability" /\ \E b \in InStockBodies : CreateProduct(b)
  \/ focus = "availability" /\ \E i \in ProductIds, b \in InStockBodies :
                                 UpdateProduct(i, b)

SlugTraffic ==
  \/ focus = "slugs" /\ \E b \in SlugCategoryBodies : CreateCategory(b)
  \/ focus = "slugs" /\ \E i \in CategoryIds, b \in SlugCategoryBodies :
                          UpdateCategory(i, b)
  \/ focus = "slugs" /\ \E i \in CategoryIds : DeleteCategory(i)
  \/ focus = "slugs" /\ \E b \in SlugProductBodies : CreateProduct(b)
  \/ focus = "slugs" /\ \E i \in ProductIds, b \in SlugProductBodies :
                          UpdateProduct(i, b)

AdminTraffic ==
  \/ focus = "admins" /\ \E b \in AdminBodies : CreateAdmin(b)
  \/ focus = "admins" /\ \E i \in AdminIds, b \in AdminBodies : UpdateAdmin(i, b)
  \/ focus = "admins" /\ \E i \in AdminIds : DeleteAdmin(i)
  \/ focus = "admins" /\ \E i \in AdminIds : RestoreAdmin(i)
  \/ focus = "admins" /\ \E i \in AdminIds, q \in DetailQueries :
                           GetAdminById(i, q)
  \/ focus = "admins" /\ \E q \in ListQueries : GetAllAdmins(q)

PasswordTraffic ==
  \/ focus = "passwords" /\ CreateAdmin(SeedAdmin)
  \/ focus = "passwords" /\ \E i \in AdminIds, b \in PasswordBodies :
                              UpdateAdmin(i, b)
  \/ focus = "passwords" /\ \E i \in AdminIds : DeleteAdmin(i)

\* deleteAdmin and restoreAdmin requests on the same admins, overlapping
CompositeTraffic ==
  \/ focus = "composite" /\ CreateAdmin(SeedAdmin)
  \/ focus = "composite" /\ \E i \in AdminIds : BeginDeleteAdmin(i)
  \/ focus = "composite" /\ DeleteAdminProfileWrite
  \/ focus = "composite" /\ DeleteAdminUserWrite
  \/ focus = "composite" /\ DeleteAdminUserWriteFails
  \/ focus = "composite" /\ \E i \in AdminIds : BeginRestoreAdmin(i)
  \/ focus = "composite" /\ RestoreAdminUserWrite
  \/ focus = "composite" /\ RestoreAdminProfileWrite
  \/ focus = "composite" /\ RestoreAdminProfileWriteFails

(***************************************************************************)
(* Overlapping requests: the validation chains of a route run, awaiting    *)
(* their queries, before its handler does; another request may run in      *)
(* between.                                                                *)
(***************************************************************************)
\* validate.create of the category router has run for slot r
CreateCategoryChains(r, raw) ==
  /\ flight.race[r].pc = "idle"
  /\ flight' = [flight EXCEPT !.race[r] =
                  [pc |-> "checked", op |-> "createCategory", id |-> 0,
                   body |-> raw, failed |-> CategoryBodyFails(raw, 0),
                   status |-> 0, email |-> "undefined", pid |-> 0]]
  /\ UNCHANGED <<categories, products, users, profiles, now, focus, last,
                 snap, pg, log>>

\* controller.createCategory runs for slot r
CreateCategoryHandler(r) ==
  /\ flight.race[r].pc = "checked"
  /\ flight.race[r].op = "createCategory"
  /\ CreateCategoryAfter(flight.race[r].body, flight.race[r].failed)
  /\ flight' = [flight EXCEPT !.race[r].pc = "done",
                               !.race[r].id = last'.id,
                               !.race[r].status = last'.status]

RaceTraffic ==
  \/ focus = "races" /\ \E r \in RaceSlots, b \in RaceCategoryBodies :
                          CreateCategoryChains(r, b)
  \/ focus = "races" /\ \E r \in RaceSlots : CreateCategoryHandler(r)

(***************************************************************************)
(* Overlapping admin requests: a handler yields at each await, and the     *)
(* statements of another request may run before it resumes.                *)
(***************************************************************************)
\* the response of slot r ends: the answer is kept and morgan writes its line
SlotAnswers(r, op, method, id, body, response) ==
  /\ last' = response
  /\ log' = log \cup HttpLogPasswords(method, body)
  /\ flight' = [flight EXCEPT !.race[r] =
                  [@ EXCEPT !.pc = "done", !.op = op, !.id = id,
                            !.body = body, !.status = response.status]]

\* createAdmin: the validation chains, then await User.findOne({where: {email}})
CreateAdminFindOne(r, body) ==
  /\ flight.race[r].pc = "idle"
  /\ LET gate == Gate(\/ AdminEmailFails(body, 0)
                      \/ AdminPasswordFails(body)
                      \/ AdminFirstNameFails(body))
     IN  IF gate # 0
         THEN SlotAnswers(r, "createAdmin", "POST", 0, body,
                          Response("createAdmin", 0, gate, NoRows))
         ELSE IF body.email = "undefined"
         THEN SlotAnswers(r, "createAdmin", "POST", 0, body,
                          ErrorResponse("createAdmin", 0, "Error"))
         ELSE IF LiveUserWithEmail(body.email, 0)
         THEN SlotAnswers(r, "createAdmin", "POST", 0, body,
                          Response("createAdmin", 0, 400, NoRows))
         ELSE /\ flight' = [flight EXCEPT !.race[r] =
                              [IdleSlot EXCEPT !.pc = "looked",
                                               !.op = "createAdmin",
                                               !.body = body]]
              /\ UNCHANGED <<last, log>>
  /\ UNCHANGED <<categories, products, users, profiles, now, focus, snap, pg>>

\* createAdmin: await User.create({email, password, ...})
CreateAdminUserCreate(r) ==
  /\ flight.race[r].pc = "looked"
  /\ flight.race[r].op = "createAdmin"
  /\ LET body == flight.race[r].body
         uerr == UserCreateError(body.email, body.password)
         uid == Len(users) + 1
     IN  IF uerr # ""
         THEN /\ SlotAnswers(r, "createAdmin", "POST", 0, body,
                             ErrorResponse("createAdmin", 0, uerr))
              /\ UNCHANGED <<users, snap>>
         ELSE /\ Len(users) < MaxUsers
              /\ users' = Append(users, NewUser(body.email, body.password))
              /\ snap' = [snap EXCEPT !.user = Append(@, NoUser)]
              /\ flight' = [flight EXCEPT !.race[r].pc = "user",
                                           !.race[r].id = uid]
              /\ UNCHANGED <<last, log>>
  /\ UNCHANGED <<categories, products, profiles, now, focus, pg>>

\* createAdmin: await AdminProfile.create({userId: user.id, ...}); res.status(201)
CreateAdminProfileCreate(r) ==
  /\ flight.race[r].pc = "user"
  /\ flight.race[r].op = "createAdmin"
  /\ LET body == flight.race[r].body
         uid == flight.race[r].id
         perr == ProfileCreateError(body.firstName)
     IN  IF perr # ""
         THEN /\ SlotAnswers(r, "createAdmin", "POST", uid, body,
                             ErrorResponse("createAdmin", uid, perr))
              /\ UNCHANGED <<profiles, snap>>
         ELSE /\ profiles' = Append(profiles, NewProfile(uid, body.firstName))
              /\ snap' = [snap EXCEPT !.profile = Append(@, NoProfile)]
              /\ SlotAnswers(r, "createAdmin", "POST", uid, body,
                             [Response("createAdmin", uid, 201, NoRows) EXCEPT
                                !.secrets = BodySecrets({users[uid]})])
  /\ UNCHANGED <<categories, products, users, now, focus, pg>>

\* updateAdmin: the validation chains, then await User.findOne({where: {id,
\* accountType: "admin"}, include: adminProfile})
UpdateAdminFindOne(r, id, body) ==
  /\ flight.race[r].pc = "idle"
  /\ LET gate == Gate(AdminIdParamFails(id, UndefinedQ)
                      \/ AdminEmailFails(body, id))
     IN  IF gate # 0
         THEN SlotAnswers(r, "updateAdmin", "PUT", id, body,
                          Response("updateAdmin", id, gate, NoRows))
         ELSE IF ~AdminFound(id, TRUE)
         THEN SlotAnswers(r, "updateAdmin", "PUT", id, body,
                          Response("updateAdmin", id, 404, NoRows))
         ELSE /\ flight' = [flight EXCEPT !.race[r] =
                              [IdleSlot EXCEPT !.pc = "found",
                                               !.op = "updateAdmin",
                                               !.id = id, !.body = body,
                                               !.email = users[id].email,
                                               !.pid = ProfileOf(id, TRUE)]]
              /\ UNCHANGED <<last, log>>
  /\ UNCHANGED <<categories, products, users, profiles, now, focus, snap, pg>>

\* updateAdmin: if (updateData.email && updateData.email !== admin.email)
\* await User.findOne({where: {email, accountType, not id}})
UpdateAdminEmailCheck(r) ==
  /\ flight.race[r].pc = "found"
  /\ flight.race[r].op = "updateAdmin"
  /\ LET body == flight.race[r].body
         id == flight.race[r].id
     IN  IF /\ body.email # "undefined"
            /\ body.email # flight.race[r].email
            /\ LiveUserWithEmail(body.email, id)
         THEN SlotAnswers(r, "updateAdmin", "PUT", id, body,
                          Response("updateAdmin", id, 400, NoRows))
         ELSE /\ flight' = [flight EXCEPT !.race[r].pc = "checked"]
              /\ UNCHANGED <<last, log>>
  /\ UNCHANGED <<categories, products, users, profiles, now, focus, snap, pg>>

\* updateAdmin: if (updateData.email || updateData.password)
\* await admin.update(updateData)
UpdateAdminUserWrite(r) ==
  /\ flight.race[r].pc = "checked"
  /\ flight.race[r].op = "updateAdmin"
  /\ LET body == flight.race[r].body
         id == flight.race[r].id
         touchesUser == body.email # "undefined" \/ body.password # "undefined"
     IN  IF touchesUser /\ body.email # "undefined"
            /\ EmailTaken(body.email, id)
         THEN /\ SlotAnswers(r, "updateAdmin", "PUT", id, body,
                             ErrorResponse("updateAdmin", id,
                                           "SequelizeUniqueConstraintError"))
              /\ UNCHANGED <<users, snap>>
         ELSE /\ users' = IF touchesUser
                          THEN [users EXCEPT ![id] =
                                  SetDeletedAt(UserUpdated(@, body),
                                               body.deletedAt, FALSE)]
                          ELSE users
              /\ snap' = [snap EXCEPT !.user[id] = NoUser]
              /\ flight' = [flight EXCEPT !.race[r].pc = "written"]
              /\ UNCHANGED <<last, log>>
  /\ UNCHANGED <<categories, products, profiles, now, focus, pg>>

\* updateAdmin: if (admin.adminProfile) await admin.adminProfile.update(
\* updateData); findByPk; res.status(200)
UpdateAdminProfileWrite(r) ==
  /\ flight.race[r].pc = "written"
  /\ flight.race[r].op = "updateAdmin"
  /\ LET body == flight.race[r].body
         id == flight.race[r].id
         pid == flight.race[r].pid
     IN  /\ profiles' = IF pid # 0
                        THEN [profiles EXCEPT ![pid] =
                                SetDeletedAt(ProfileUpdated(@, body),
                                             body.deletedAt, FALSE)]
                        ELSE profiles
         /\ snap' = [snap EXCEPT !.profile = IF pid # 0
                                             THEN [@ EXCEPT ![pid] = NoProfile]
                                             ELSE @]
         /\ SlotAnswers(r, "updateAdmin", "PUT", id, body,
                        [Response("updateAdmin", id, 200, NoRows) EXCEPT
                           !.secrets = BodySecrets({UserInScope(users[id])})])
  /\ UNCHANGED <<categories, products, users, now, focus, pg>>

AdminRaceTraffic ==
  \/ focus = "adminraces" /\ CreateAdmin(RaceSeedAdmin)
  \/ focus = "adminraces" /\ \E i \in AdminIds : DeleteAdmin(i)
  \/ focus = "adminraces" /\ \E r \in RaceSlots, b \in RaceAdminBodies :
                               CreateAdminFindOne(r, b)
  \/ focus = "adminraces" /\ \E r \in RaceSlots : CreateAdminUserCreate(r)
  \/ focus = "adminraces" /\ \E r \in RaceSlots : CreateAdminProfileCreate(r)
  \/ focus = "adminraces" /\ \E r \in RaceSlots, i \in AdminIds,
                                b \in RaceAdminUpdates :
                               UpdateAdminFindOne(r, i, b)
  \/ focus = "adminraces" /\ \E r \in RaceSlots : UpdateAdminEmailCheck(r)
  \/ focus = "adminraces" /\ \E r \in RaceSlots : UpdateAdminUserWrite(r)
  \/ focus = "adminraces" /\ \E r \in RaceSlots : UpdateAdminProfileWrite(r)

ListingFocus == focus \in {"pagination", "sorting"}

PaginationTraffic ==
  \/ ListingFocus /\ CategoriesPagination
  \/ ListingFocus /\ ProductsPagination
  \/ ListingFocus /\ AdminsPagination

Next ==
  \/ CategoryTraffic
  \/ ProductTraffic
  \/ StockTraffic
  \/ AdminTraffic
  \/ ReferenceTraffic
  \/ FrameTraffic
  \/ InStockTraffic
  \/ DeactivationTraffic
  \/ SlugTraffic
  \/ RaceTraffic
  \/ AdminRaceTraffic
  \/ PasswordTraffic
  \/ CompositeTraffic
  \/ PaginationTraffic

Spec == Init /\ [][Next]_vars

(***************************************************************************)
(* Claims                                                                  *)
(***************************************************************************)
LiveCategory(i) == i \in 1..Len(categories) /\ categories[i].deletedAt = NullTime
LiveProduct(i) == i \in 1..Len(products) /\ products[i].deletedAt = NullTime
LiveAdmin(i) == i \in 1..Len(users) /\ users[i].deletedAt = NullTime

\* C1: a restore request on a record that exists and is not soft-deleted is
\* answered 400 and leaves the record as it was, for categories, products
\* and admins alike.
C1_RestoreOfLiveRecordRejected ==
  [][/\ \A i \in CategoryIds :
          LiveCategory(i) /\ RestoreCategory(i)
            => last'.status = 400 /\ categories' = categories
     /\ \A i \in ProductIds :
          LiveProduct(i) /\ RestoreProduct(i)
            => last'.status = 400 /\ products' = products
     /\ \A i \in AdminIds :
          LiveAdmin(i) /\ RestoreAdmin(i)
            => last'.status = 400 /\ users' = users /\ profiles' = profiles
    ]_vars

\* includeDeleted absent or given as false
IncludeDeletedOff(q) == q.includeDeleted \in {UndefinedQ, "false"}

\* C2: a list request whose includeDeleted parameter is absent or "false"
\* returns no soft-deleted row.
C2_DefaultListHidesDeleted ==
  [][\A q \in ListQueries :
       IncludeDeletedOff(q) =>
         /\ GetAllCategories(q) =>
              \A r \in last'.rows : categories[r].deletedAt = NullTime
         /\ GetAllProducts(q) =>
              \A r \in last'.rows : products[r].deletedAt = NullTime
         /\ GetAllAdmins(q) =>
              \A r \in last'.rows : users[r].deletedAt = NullTime
    ]_vars

\* C3: once a category named n is stored, a createCategory carrying the
\* name n is answered 400 and stores no row, whatever slug it supplies.
C3_DuplicateNameCreateRejected ==
  [][\A b \in CategoryBodies :
       /\ b.name # UndefinedStr
       /\ \E i \in 1..Len(categories) : categories[i].name = Trim(b.name)
       /\ CreateCategory(b)
       => last'.status = 400 /\ categories' = categories
    ]_vars

\* C4: an update of an existing, non-deleted category, product or admin
\* whose payload repeats the record's own name (email for admins)
\* succeeds.  The rows taken are those the default scope finds, and the
\* payloads those without a slug, so that no other record's value is
\* involved.
C4_OwnNameUpdateSucceeds ==
  [][/\ \A i \in CategoryIds, b \in CategoryBodies :
          /\ CategoryInScope(i, TRUE)
          /\ b.name = categories[i].name
          /\ b.slug = UndefinedStr
          /\ UpdateCategory(i, b)
          => last'.status = 200
     /\ \A i \in ProductIds, b \in ProductBodies \cup StockBodies :
          /\ ProductInScope(i, TRUE)
          /\ b.name = products[i].name
          /\ b.slug = UndefinedStr
          /\ UpdateProduct(i, b)
          => last'.status = 200
     /\ \A i \in AdminIds, b \in AdminBodies :
          /\ LiveAdmin(i)
          /\ b.email = users[i].email
          /\ UpdateAdmin(i, b)
          => last'.status = 200
    ]_vars

\* what the stored slug must be for a payload b
SlugAsClaimed(b, stored) ==
  /\ b.name # UndefinedStr /\ b.slug = UndefinedStr => stored = Slugify(b.name)
  /\ b.slug # UndefinedStr /\ MatchesSlugPattern(b.slug) => stored = b.slug

\* C5: after a category or product create or update that is answered with
\* success, the stored slug is slugify(name) when the payload carries a
\* name and no slug, and is the payload's slug when that slug matches
\* ^[a-z0-9-]+$.
C5_StoredSlug ==
  [][/\ last'.op = "createCategory" /\ last'.status = 201 =>
          \A b \in CategoryBodies :
            \/ SlugAsClaimed(b, categories'[last'.id].slug)
            \/ ~CreateCategory(b)
     /\ last'.op = "updateCategory" /\ last'.status = 200 =>
          \A b \in CategoryBodies :
            \/ SlugAsClaimed(b, categories'[last'.id].slug)
            \/ ~UpdateCategory(last'.id, b)
     /\ last'.op = "createProduct" /\ last'.status = 201 =>
          \A b \in IF focus = "stock" THEN StockBodies ELSE ProductBodies :
            \/ SlugAsClaimed(b, products'[last'.id].slug)
            \/ ~CreateProduct(b)
     /\ last'.op = "updateProduct" /\ last'.status = 200 =>
          \A b \in IF focus = "stock" THEN StockBodies ELSE ProductBodies :
            \/ SlugAsClaimed(b, products'[last'.id].slug)
            \/ ~UpdateProduct(last'.id, b)
    ]_vars

\* a derived slug (lowercased, hyphenated) and an explicit one are stored
C5_Witness ==
  /\ last.op = "updateCategory"
  /\ last.status = 200
  /\ \E i \in 1..Len(categories) :
       /\ categories[i].name = <<"A", " ", "b">>
       /\ categories[i].slug = <<"a", "-", "b">>
  /\ \E i \in 1..Len(categories) :
       /\ categories[i].name = <<"A", " ", "b">>
       /\ categories[i].slug = <<"x">>

\* C6: a restore request without query flags on a soft-deleted category,
\* product or admin is answered 200, and the row (for admins the profile
\* row too) is then what it was before the delete, deletedAt null again.
C6_DeleteThenRestore ==
  [][/\ \A i \in CategoryIds :
          i \in 1..Len(categories) /\ ~LiveCategory(i) /\ RestoreCategory(i)
            => /\ last'.status = 200
               /\ categories'[i] = snap.category[i]
               /\ categories'[i].deletedAt = NullTime
     /\ \A i \in ProductIds :
          i \in 1..Len(products) /\ ~LiveProduct(i) /\ RestoreProduct(i)
            => /\ last'.status = 200
               /\ products'[i] = snap.product[i]
               /\ products'[i].deletedAt = NullTime
     /\ \A i \in AdminIds :
          i \in 1..Len(users) /\ ~LiveAdmin(i) /\ RestoreAdmin(i)
            => /\ last'.status = 200
               /\ users'[i] = snap.user[i]
               /\ users'[i].deletedAt = NullTime
               /\ \A p \in 1..Len(profiles) :
                    profiles[p].userId = i
                      => /\ profiles'[p] = snap.profile[p]
                         /\ profiles'[p].deletedAt = NullTime
    ]_vars

C6_Witness ==
  /\ last.op = "restoreAdmin"
  /\ last.status = 200
  /\ now > 0
  /\ users[last.id] = snap.user[last.id]
  /\ \E p \in 1..Len(profiles) :
       /\ profiles[p].userId = last.id
       /\ profiles[p] = snap.profile[p]
       /\ profiles[p].firstName = "Bo"

\* C7: every stored product is within its bounds: quantity >= minQuantity
\* when minQuantity is set, quantity <= maxQuantity when maxQuantity is set.
C7_QuantityWithinBounds ==
  \A i \in 1..Len(products) :
    /\ products[i].minQuantity # NullQty
         => products[i].quantity >= products[i].minQuantity
    /\ products[i].maxQuantity # NullQty
         => products[i].quantity <= products[i].maxQuantity

\* C8: for a soft-deleted category or product, GET /:id is answered 404
\* without includeDeleted and 200 with the record with includeDeleted=true.
C8_DetailOfDeletedRecord ==
  [][/\ \A i \in CategoryIds :
          i \in 1..Len(categories) /\ ~LiveCategory(i)
            => /\ GetCategoryById(i, [includeDeleted |-> UndefinedQ])
                    => last'.status = 404
               /\ GetCategoryById(i, [includeDeleted |-> "true"])
                    => last'.status = 200 /\ last'.rows = {i}
     /\ \A i \in ProductIds :
          i \in 1..Len(products) /\ ~LiveProduct(i)
            => /\ GetProductById(i, [includeDeleted |-> UndefinedQ])
                    => last'.status = 404
               /\ GetProductById(i, [includeDeleted |-> "true"])
                    => last'.status = 200 /\ last'.rows = {i}
    ]_vars

\* C9: in every list response, with p the requested page: totalItems = N,
\* totalPages = ceil(N/L), hasNext iff p < totalPages, hasPrev iff p > 1,
\* nextPageUrl null iff not hasNext and else for page p+1, prevPageUrl
\* null iff not hasPrev and else for page p-1.
C9_PaginationEnvelope ==
  pg.list # "none" =>
    LET e == pg.env
        p2 == TwiceNumber(pg.page)
    IN  /\ e.totalItems = pg.count
        /\ e.totalPages = CeilDiv(pg.count, pg.limit)
        /\ e.hasNext <=> p2 < 2 * e.totalPages
        /\ e.hasPrev <=> p2 > 2
        /\ e.nextPageUrl = NullUrl <=> ~e.hasNext
        /\ e.nextPageUrl # NullUrl => 2 * e.nextPageUrl = p2 + 2
        /\ e.prevPageUrl = NullUrl <=> ~e.hasPrev
        /\ e.prevPageUrl # NullUrl => 2 * e.prevPageUrl = p2 - 2

\* C10: whenever no request is in flight, every admin User row has its
\* AdminProfile row.
C10_AdminHasProfile ==
  \A u \in 1..Len(users) :
    users[u].accountType = "admin" => ProfileOf(u, FALSE) # 0

\* C11: whenever no deleteAdmin or restoreAdmin request is between its
\* awaits, an admin User row is soft-deleted iff its AdminProfile row is,
\* whatever the interleaving of the requests and whichever write failed.
C11_CompositeMovesTogether ==
  Quiescent =>
    \A p \in 1..Len(profiles) :
      (users[profiles[p].userId].deletedAt # NullTime)
        <=> (profiles[p].deletedAt # NullTime)

\* C12: the controller runs only after every check of the route's chain
\* has passed, so a request with a failing check writes nothing to the
\* store.  Stated for the body checks of the create and update routes of
\* the two mounted routers, on records the id check finds.
C12_FailedCheckStopsRequest ==
  [][/\ \A b \in CategoryBodies :
          CategoryBodyFails(b, 0) /\ CreateCategory(b)
            => categories' = categories
     /\ \A i \in CategoryIds, b \in CategoryBodies :
          /\ ~CategoryIdParamFails(i, UndefinedQ)
          /\ CategoryBodyFails(b, i)
          /\ UpdateCategory(i, b)
          => categories' = categories
     /\ \A b \in AdminBodies :
          (AdminEmailFails(b, 0) \/ AdminPasswordFails(b)) /\ CreateAdmin(b)
            => users' = users /\ profiles' = profiles
     /\ \A i \in AdminIds, b \in AdminBodies :
          /\ ~AdminIdParamFails(i, UndefinedQ)
          /\ AdminEmailFails(b, i)
          /\ UpdateAdmin(i, b)
          => users' = users /\ profiles' = profiles
    ]_vars

\* C13: a failure of no recognised kind is answered 500 with a generic
\* message; the body never carries the text of the error that was thrown.
C13_UnexpectedFailureIsGeneric ==
  last.status = 500 =>
    last.message \in {"Server Error", "Database connection error"}

\* C14: no response body of an admin endpoint carries the User password,
\* as plaintext or as hash.
C14_NoPasswordInBody == last.secrets = NoSecrets

\* an admin was created, its hash is stored, and the 201 body has no password
C14_Witness ==
  /\ last.op = "createAdmin"
  /\ last.status = 201
  /\ users[last.id].password = Hash("Passw0rd!")
  /\ last.secrets = NoSecrets

\* C15: a password submitted to createAdmin or updateAdmin is stored only
\* as its hash and appears in no log record.
C15_PlaintextNeitherStoredNorLogged ==
  /\ \A u \in 1..Len(users) : users[u].password[1] = "bcrypt"
  /\ log = {}

\* the rows a list request must show, by their isActive flag
VisibleAsClaimed(active, q) ==
  IF q.isActive # UndefinedQ THEN active = (q.isActive = "true")
  ELSE IF q.includeInactive \in {UndefinedQ, "false"} THEN active
  ELSE TRUE

\* C16: a category or product list shows all and only the rows with the
\* given isActive value when isActive is given, only active rows when
\* includeInactive is absent or false, and inactive rows alongside active
\* ones when includeInactive is true.  Stated on the rows that are not
\* soft-deleted.
C16_ListVisibility ==
  [][/\ last'.op = "getAllCategories" =>
          \A q \in ListQueries :
            GetAllCategories(q) =>
              \A i \in 1..Len(categories) :
                categories[i].deletedAt = NullTime =>
                  (i \in last'.rows
                     <=> VisibleAsClaimed(categories[i].isActive, q))
     /\ last'.op = "getAllProducts" =>
          \A q \in ListQueries :
            GetAllProducts(q) =>
              \A i \in 1..Len(products) :
                products[i].deletedAt = NullTime =>
                  (i \in last'.rows
                     <=> VisibleAsClaimed(products[i].isActive, q))
    ]_vars

\* the sort fields the claim allows for each list
SortableAsClaimed(list) ==
  CASE list = "products" -> ProductSortFields
    [] list = "categories" -> {"name", "slug", "createdAt", "updatedAt"}
    [] OTHER -> {"email", "createdAt", "updatedAt"}

\* C17: a list request's sortBy and sortOrder reach the query only when
\* sortBy is one of the list's sortable fields and the direction is ASC or
\* DESC; a request with any other value is rejected before a query is run.
C17_OrderFromAllowList ==
  pg.list # "none" =>
    \/ pg.order = NoOrder
    \/ /\ pg.order.by \in SortableAsClaimed(pg.list)
       /\ pg.order.dir \in {"ASC", "DESC"}

\* a category a product may refer to, as the claim has it
ReferableAsClaimed(c) ==
  /\ c \in 1..Len(categories)
  /\ categories[c].deletedAt = NullTime
  /\ categories[c].isActive

\* C18: a product create or update whose categoryId names a category that
\* does not exist, is soft-deleted or is inactive ends with a 400-class
\* status and leaves the product store unchanged.
C18_DeadCategoryRejected ==
  [][/\ (focus = "references" /\ last'.op = "createProduct") =>
          \A b \in ReferenceBodies :
            (b.categoryId # 0 /\ ~ReferableAsClaimed(b.categoryId)) =>
              \/ last'.status \in 400..499 /\ products' = products
              \/ ~CreateProduct(b)
     /\ (focus = "references" /\ last'.op = "updateProduct") =>
          \A i \in ProductIds, b \in ReferenceBodies :
            (b.categoryId # 0 /\ ~ReferableAsClaimed(b.categoryId)) =>
              \/ last'.status \in 400..499 /\ products' = products
              \/ ~UpdateProduct(i, b)]_vars

\* C19: once the validation modules are loaded, a create request that omits
\* a field required on create still fails that field's check: for every
\* create that has been answered, a body without the category name, the
\* product categoryId or name, or the admin email, password or first name
\* fails the check of that field.
C19_CreateChecksStayMandatory ==
  [][/\ last'.op = "createCategory" =>
          \A b \in CategoryBodies :
            (b.name = UndefinedStr /\ CreateCategory(b)) =>
              CategoryNameFails(b, 0)
     /\ (focus = "references" /\ last'.op = "createProduct") =>
          \A b \in ReferenceBodies :
            /\ (b.categoryId = 0 /\ CreateProduct(b)) =>
                  ProductCategoryIdFails(b)
            /\ (b.name = UndefinedStr /\ CreateProduct(b)) =>
                  ProductNameFails(b, 0)
     /\ last'.op = "createAdmin" =>
          \A b \in AdminBodies :
            /\ (b.email = "undefined" /\ CreateAdmin(b)) =>
                  AdminEmailFails(b, 0)
            /\ (b.password = "undefined" /\ CreateAdmin(b)) =>
                  AdminPasswordFails(b)
            /\ (b.firstName = "undefined" /\ CreateAdmin(b)) =>
                  AdminFirstNameFails(b)]_vars

\* C20: every stored product with both minQuantity and maxQuantity set has
\* minQuantity <= maxQuantity, also after an update that submits only one
\* of the two bounds.
C20_MinAtMostMax ==
  \A i \in 1..Len(products) :
    (products[i].minQuantity # NullQty /\ products[i].maxQuantity # NullQty)
      => products[i].minQuantity <= products[i].maxQuantity

SoftDeletedCategory(i) ==
  i \in 1..Len(categories) /\ categories[i].deletedAt # NullTime

SoftDeletedProduct(i) ==
  i \in 1..Len(products) /\ products[i].deletedAt # NullTime

SoftDeletedAdmin(i) ==
  i \in 1..Len(users) /\ users[i].deletedAt # NullTime

\* C21: a delete request on an already soft-deleted category, product or
\* admin is answered 404 in all three resources and leaves the record, its
\* deletedAt included, as it was.
C21_DeleteOfDeletedRecord ==
  [][last' # last =>
       /\ \A i \in CategoryIds :
            (SoftDeletedCategory(i) /\ last'.op = "deleteCategory"
               /\ last'.id = i)
              => last'.status = 404 /\ categories' = categories
       /\ \A i \in ProductIds :
            (SoftDeletedProduct(i) /\ last'.op = "deleteProduct"
               /\ last'.id = i)
              => last'.status = 404 /\ products' = products
       /\ \A i \in AdminIds :
            (SoftDeletedAdmin(i) /\ last'.op = "deleteAdmin" /\ last'.id = i)
              => /\ last'.status = 404
                 /\ users' = users
                 /\ profiles' = profiles]_vars

C21_Witness ==
  /\ last.op = "deleteProduct"
  /\ last.status = 404
  /\ SoftDeletedProduct(last.id)
  /\ products[last.id].deletedAt < now

\* the request that the step answers found the record as the step finds it:
\* it ran with no other request in between, or the step is its lookup
AnsweredAtOnce ==
  focus = "adminraces" =>
    \E r \in RaceSlots : flight.race[r].pc = "idle" /\ flight'.race[r].pc = "done"

\* C22: no update request changes the deletedAt or the id of any record,
\* whatever its payload: the rows keep their ids and their deletedAt, rows
\* other than the addressed one are untouched, and an update addressed to a
\* soft-deleted record is refused and changes nothing.
C22_UpdateKeepsIdAndDeletedAt ==
  [][last' # last =>
       /\ last'.op = "updateCategory" =>
            /\ Len(categories') = Len(categories)
            /\ \A i \in 1..Len(categories) :
                 /\ categories'[i].deletedAt = categories[i].deletedAt
                 /\ i # last'.id => categories'[i] = categories[i]
            /\ SoftDeletedCategory(last'.id) =>
                 last'.status \in 400..499 /\ categories' = categories
       /\ last'.op = "updateProduct" =>
            /\ Len(products') = Len(products)
            /\ \A i \in 1..Len(products) :
                 /\ products'[i].deletedAt = products[i].deletedAt
                 /\ i # last'.id => products'[i] = products[i]
            /\ SoftDeletedProduct(last'.id) =>
                 last'.status \in 400..499 /\ products' = products
       /\ last'.op = "updateAdmin" =>
            /\ Len(users') = Len(users)
            /\ Len(profiles') = Len(profiles)
            /\ \A i \in 1..Len(users) :
                 /\ users'[i].deletedAt = users[i].deletedAt
                 /\ i # last'.id => users'[i] = users[i]
            /\ \A p \in 1..Len(profiles) :
                 /\ profiles'[p].deletedAt = profiles[p].deletedAt
                 /\ profiles'[p].userId = profiles[p].userId
            /\ (SoftDeletedAdmin(last'.id) /\ AnsweredAtOnce) =>
                 /\ last'.status \in 400..499
                 /\ users' = users
                 /\ profiles' = profiles]_vars

C22_Witness ==
  /\ focus = "frames"
  /\ last.op = "updateAdmin"
  /\ last.status = 200
  /\ users[last.id].deletedAt = NullTime
  /\ \E p \in 1..Len(profiles) :
       /\ profiles[p].userId = last.id
       /\ profiles[p].firstName = "Bo"
       /\ profiles[p].deletedAt = NullTime

\* C23: every stored product has inStock = TRUE exactly when its quantity
\* is above 0, after any creates and updates, whether or not the payload
\* carries an inStock value or only a quantity.
C23_InStockFollowsQuantity ==
  \A i \in 1..Len(products) :
    products[i].inStock <=> products[i].quantity > 0

\* the slug a payload asks for: its slug, lower-cased, or else the slug
\* derived from its name; UndefinedStr when it carries neither
RequestedSlug(b) ==
  IF b.slug # UndefinedStr THEN ToLowerCase(Trim(b.slug))
  ELSE IF b.name # UndefinedStr THEN Slugify(b.name)
  ELSE UndefinedStr

\* the slug is empty, outside ^[a-z0-9-]+$ or held by another row
SlugBreaks(slug, rows, self) ==
  \/ ~MatchesSlugPattern(slug)
  \/ \E i \in 1..Len(rows) : i # self /\ rows[i].slug = slug

SlugsWellFormed(rows) ==
  \A i \in 1..Len(rows) :
    /\ MatchesSlugPattern(rows[i].slug)
    /\ \A j \in 1..Len(rows) : rows[j].slug = rows[i].slug => j = i

C25_OneOfTwoCreatesSucceeds ==
  ~ /\ flight.race[1].op = "createCategory"
    /\ flight.race[2].op = "createCategory"
    /\ flight.race[1].status = 201
    /\ flight.race[2].status = 201
    /\ flight.race[1].body.name = flight.race[2].body.name

\* every User row, soft-deleted or not, holds an email of its own
UniqueEmails(rows) ==
  \A i, j \in 1..Len(rows) : rows[i].email = rows[j].email => i = j

\* slot r runs the statement that writes its email to a User row
WritesEmail(r) ==
  \/ /\ flight.race[r].op = "createAdmin"
     /\ flight.race[r].pc = "looked"
     /\ flight'.race[r].pc # "looked"
  \/ /\ flight.race[r].op = "updateAdmin"
     /\ flight.race[r].pc = "checked"
     /\ flight'.race[r].pc # "checked"

\* C26: under every interleaving of overlapping createAdmin and updateAdmin
\* requests no two User rows hold one email, soft-deleted rows included; a
\* request whose email is held by another row, live or soft-deleted, when
\* its write runs is answered 400 and writes no User row.
C26_EmailsStayUnique ==
  [][/\ UniqueEmails(users')
     /\ \A r \in RaceSlots :
          (/\ focus = "adminraces"
           /\ WritesEmail(r)
           /\ EmailTaken(flight.race[r].body.email,
                         IF flight.race[r].op = "updateAdmin"
                         THEN flight.race[r].id ELSE 0))
          => /\ flight'.race[r].pc = "done"
             /\ flight'.race[r].status = 400
             /\ users' = users]_vars

\* two overlapping requests asked for one email: one wrote it, the other was
\* answered 400 by the unique index after its lookup had found nothing
C26_Witness ==
  /\ focus = "adminraces"
  /\ \E r, q \in RaceSlots :
       /\ r # q
       /\ flight.race[r].pc = "done" /\ flight.race[r].status \in {200, 201}
       /\ flight.race[q].pc = "done" /\ flight.race[q].status = 400
       /\ flight.race[q].op = "updateAdmin"
       /\ last.op = "updateAdmin"
       /\ last.message = "err.errors[].message"
       /\ \E i \in 1..Len(users) : users[i].email = flight.race[q].body.email
       /\ UniqueEmails(users)

\* the requests addressed to one category
CategoryRequests ==
  {"getCategoryById", "updateCategory", "deleteCategory", "restoreCategory"}

\* C27: once a category's isActive is false, every detail, update, delete
\* and restore request addressed to its id is answered 404, and no step
\* sets its isActive back to true.
C27_DeactivationAbsorbing ==
  [][\A i \in 1..Len(categories) :
       ~categories[i].isActive =>
         /\ ~categories'[i].isActive
         /\ (last'.op \in CategoryRequests /\ last'.id = i)
              => last'.status = 404]_vars

\* a category that was created active and deactivated by an update, never
\* deleted, answers 404 to an update that asks for isActive true
C27_Witness ==
  /\ focus = "deactivation"
  /\ \E i \in 1..Len(categories) :
       /\ ~categories[i].isActive
       /\ categories[i].deletedAt = NullTime
       /\ last.op = "updateCategory"
       /\ last.id = i
       /\ last.status = 404

\* category c is soft-deleted or deactivated by the step
CategoryLeaves(c) ==
  \/ categories[c].deletedAt = NullTime /\ categories'[c].deletedAt # NullTime
  \/ categories[c].isActive /\ ~categories'[c].isActive

\* C28: a step that soft-deletes or deactivates a category leaves every
\* product row as it was, the rows that refer to the category included.
C28_NoCascadeToProducts ==
  [][(\E c \in 1..Len(categories) : CategoryLeaves(c))
       => products' = products]_vars

\* a live, active product refers to the category that the last request
\* soft-deleted
C28_Witness ==
  /\ last.op = "deleteCategory"
  /\ last.status = 200
  /\ \E p \in 1..Len(products) :
       /\ products[p].deletedAt = NullTime
       /\ products[p].isActive
       /\ products[p].categoryId = last.id
       /\ categories[last.id].deletedAt # NullTime

\* the attributes of the password in every User row
PasswordColumns(rows) ==
  [i \in 1..Len(rows) |-> <<rows[i].password, rows[i].lastPasswordChange>>]

\* C29: an updateAdmin whose payload has neither email nor password leaves
\* the User rows as they were, and the stored hash and lastPasswordChange
\* change only under a payload with a password.
C29_UserRowFrame ==
  [][(focus = "passwords" /\ last'.op = "updateAdmin") =>
       \A i \in AdminIds, b \in PasswordBodies :
         \/ ~UpdateAdmin(i, b)
         \/ /\ (b.email = "undefined" /\ b.password = "undefined")
                 => users' = users
            /\ b.password = "undefined"
                 => PasswordColumns(users') = PasswordColumns(users)]_vars

\* the name of payload b is that of a soft-deleted category stored under the
\* slug derived from the name, and of no live category
NameOfDeletedOnly(b) ==
  /\ b.name # UndefinedStr
  /\ \E i \in 1..Len(categories) :
       /\ categories[i].deletedAt # NullTime
       /\ categories[i].name = Trim(b.name)
       /\ categories[i].slug = Slugify(b.name)
  /\ \A i \in 1..Len(categories) :
       categories[i].name = Trim(b.name) => categories[i].deletedAt # NullTime

\* the slug of payload b is well-formed and held by no row
FreshSlug(b) ==
  /\ b.slug # UndefinedStr
  /\ MatchesSlugPattern(b.slug)
  /\ \A i \in 1..Len(categories) : categories[i].slug # b.slug

\* C30: a create under the name of a soft-deleted category passes the name
\* check; without a slug it is answered 400 by the unique index on slug and
\* stores nothing, with a fresh explicit slug it is answered 201 and stores
\* a second row with the name.
C30_DeletedKeepsSlugNotName ==
  [][(focus = "slugs" /\ last'.op = "createCategory") =>
       \A b \in SlugCategoryBodies :
         \/ ~NameOfDeletedOnly(b)
         \/ ~CreateCategory(b)
         \/ /\ ~CategoryNameFails(b, 0)
            /\ b.slug = UndefinedStr =>
                 /\ last'.status = 400
                 /\ last'.message = ErrorMessage("SequelizeUniqueConstraintError")
                 /\ categories' = categories
            /\ FreshSlug(b) =>
                 /\ last'.status = 201
                 /\ categories' = Append(categories, categories'[Len(categories')])
                 /\ categories'[Len(categories')].name = Trim(b.name)
                 /\ categories'[Len(categories')].slug = b.slug
                 /\ categories'[Len(categories')].deletedAt = NullTime]_vars

\* two rows with one name: the first soft-deleted under the derived slug,
\* the second live, stored by the last request under a slug of its own
C30_Witness ==
  /\ focus = "slugs"
  /\ last.op = "createCategory"
  /\ last.status = 201
  /\ Len(categories) = 2
  /\ categories[1].name = categories[2].name
  /\ categories[1].deletedAt # NullTime
  /\ categories[1].slug = Slugify(categories[1].name)
  /\ categories[2].deletedAt = NullTime
  /\ categories[2].slug # categories[1].slug
====
